---- MODULE Spec2Model ----
(***************************************************************************)
(* A model of the bin_data declarative binary codec (librePvZ/bin_data).   *)
(*                                                                         *)
(* Representation.  A byte is a number in 0..255.  A byte source (a        *)
(* `Read`) is the sequence of bytes it still holds; a byte sink (the       *)
(* `Vec<u8>` the tests write to) is the sequence of bytes written so far.  *)
(* A fixed-width number is its base-256 numeral, most significant digit    *)
(* first (0x1234_u16 is <<18, 52>>): 32- and 64-bit values do not fit the  *)
(* model checker's integers.  A String is the sequence of its UTF-8 bytes. *)
(***************************************************************************)
EXTENDS Integers, Sequences, FiniteSets, TLC

VARIABLES
    reader,     \* stream level: bytes the source still holds
    writer,     \* stream level: bytes written to the sink
    dir,        \* direction tag of the session: dir::Read or dir::Write
    last,       \* stream level: the operation performed last and its inputs
    result,     \* outcome (Result<_, DecodeError / EncodeError>) of the last operation
    builder,    \* argument builder under construction (VecArgsBuilder / StrArgsBuilder)
    calls,      \* setter calls made on the builder so far
    given,      \* the arguments of those setter calls
    record,     \* record level: the record type (its entries and options)
    scope,      \* record level: the endian argument of decode_with / encode_with
    flow,       \* record level: "ED" encode then decode, "DE" decode then encode
    stage,      \* record level: 1 or 2, the first or the second procedure of the flow
    pc,         \* record level: "encode", "decode", or "return" once the procedure returned
    idx,        \* record level: the entry the running procedure is at
    bound,      \* record level: the bindings (let name = ...) made so far
    bound1,     \* record level: the bindings the first procedure ended with
    self,       \* record level: the record value being encoded
    input,      \* record level: the bytes being decoded
    trace,      \* record level: the stream operations performed, in order
    decl,       \* macro level: the declaration handed to bin_data!
    expansion,  \* macro level: what bin_data! expanded it to
    rustc       \* macro level: the compiler's verdict on the expansion

streamVars == <<last, builder, calls, given>>

macroVars == <<decl, expansion, rustc>>

recVars == <<record, scope, flow, stage, pc, idx, bound, bound1, self, input, trace>>

vars == <<reader, writer, dir, result, streamVars, recVars, macroVars>>

\* The function with the empty domain: no bindings, no record.
Empty == [x \in {} |-> <<>>]

-----------------------------------------------------------------------------
(* Bounds of the model.                                                    *)

MaxSourceLen == 3   \* longest byte source of a stream-level session
MaxSinkLen == 1     \* longest sink contents a stream-level write still appends to
MaxPad == 3         \* largest pad(n) tried
MaxCount == 3       \* largest element / byte count handed to a builder
MaxCalls == 3       \* longest chain of builder setter calls

Byte == 0..255

\* 0x12 0x34 'a' 0x82 0xC3 0xE2: magic bytes, ASCII, a UTF-8 continuation byte
\* (no character starts with it), a two-byte lead and a three-byte lead.
SourceBytes == {18, 52, 97, 130, 195, 226}

RECURSIVE SeqsUpTo(_, _)
SeqsUpTo(S, n) ==
    IF n = 0 THEN {<<>>}
    ELSE LET shorter == SeqsUpTo(S, n - 1)
         IN shorter \cup {Append(s, x) : s \in {t \in shorter : Len(t) = n - 1}, x \in S}

Reverse(s) == [i \in 1..Len(s) |-> s[Len(s) + 1 - i]]

Zeros(n) == [i \in 1..n |-> 0]

IsPrefix(p, s) == Len(p) <= Len(s) /\ SubSeq(s, 1, Len(p)) = p

Drop(s, n) == SubSeq(s, n + 1, Len(s))

RECURSIVE Flatten(_)
Flatten(ss) == IF ss = <<>> THEN <<>> ELSE Head(ss) \o Flatten(Tail(ss))

-----------------------------------------------------------------------------
(* Outcomes: Ok(value), the DecodeError variants and the EncodeError       *)
(* variants, as one record shape.                                          *)

Outcome(kind, tag, msg, value, real, expected, prefix, invalid) ==
    [kind |-> kind, tag |-> tag, msg |-> msg, value |-> value,
     real_bytes |-> real, expected_magic |-> expected,
     valid_prefix |-> prefix, invalid_bytes |-> invalid]

Ok(value) == Outcome("Ok", "", "", value, <<>>, <<>>, <<>>, <<>>)

IncompleteData(tag, err) == Outcome("IncompleteData", tag, err, <<>>, <<>>, <<>>, <<>>, <<>>)

MagicMismatch(real, expected) ==
    Outcome("MagicMismatch", "", "", <<>>, real, expected, <<>>, <<>>)

DecodeUtf8Error(prefix, invalid) ==
    Outcome("DecodeUtf8Error", "", "", <<>>, <<>>, <<>>, prefix, invalid)

InvalidArgument(tag, msg) == Outcome("InvalidArgument", tag, msg, <<>>, <<>>, <<>>, <<>>, <<>>)

NoOutcome == Outcome("None", "", "", <<>>, <<>>, <<>>, <<>>, <<>>)

-----------------------------------------------------------------------------
(* std::io::Read::read_exact.  With n bytes available it fills the buffer  *)
(* and advances by n.  Otherwise it fails with UnexpectedEof, and how many *)
(* bytes it consumed before failing is unspecified: `lost` is that number. *)
(* The readers of std consume nothing (a slice, before the failure         *)
(* advanced it) or everything (the default read_exact reads to the end).   *)

Lost(r) == {0, Len(r)}

read_exact(r, n, lost) ==
    IF Len(r) >= n
    THEN [ok |-> TRUE, buf |-> SubSeq(r, 1, n), rest |-> Drop(r, n), err |-> ""]
    ELSE [ok |-> FALSE, buf |-> <<>>, rest |-> Drop(r, lost), err |-> "UnexpectedEof"]

-----------------------------------------------------------------------------
(* Plain data: fixed-width numbers.                                        *)

PlainTypes == {"u8", "u16", "u32", "i64", "f32"}

size_of(t) ==
    CASE t = "u8" -> 1
      [] t = "u16" -> 2
      [] t = "u32" -> 4
      [] t = "f32" -> 4
      [] t = "i64" -> 8

Endians == {"Little", "Big"}

\* The bytes taken most significant first whatever the byte order.
from_bytes_big(bytes, endian) == bytes

\* from_le_bytes / from_be_bytes: the first byte is the least significant
\* digit for Little, the most significant digit for Big.
from_bytes(bytes, endian) == IF endian = "Little" THEN Reverse(bytes) ELSE bytes

\* Byte orders exchanged.
to_bytes_swapped(value, endian) == IF endian = "Little" THEN value ELSE Reverse(value)

\* to_le_bytes / to_be_bytes.
to_bytes(value, endian) == IF endian = "Little" THEN Reverse(value) ELSE value

\* The result of read_exact ignored: a short read decodes the zeroed buffer.
plain_data_decode_with_unchecked(r, t, endian, lost) ==
    LET rd == read_exact(r, size_of(t), lost)
    IN IF ~rd.ok THEN [reader |-> rd.rest, res |-> Ok(from_bytes(Zeros(size_of(t)), endian))]
       ELSE [reader |-> rd.rest, res |-> Ok(from_bytes(rd.buf, endian))]

plain_data_decode_with(r, t, endian, lost) ==
    LET rd == read_exact(r, size_of(t), lost)
    IN IF ~rd.ok THEN [reader |-> rd.rest, res |-> IncompleteData(t, rd.err)]
       ELSE [reader |-> rd.rest, res |-> Ok(from_bytes(rd.buf, endian))]

plain_data_encode_with(value, w, endian) ==
    [writer |-> w \o to_bytes(value, endian), res |-> Ok(<<>>)]

-----------------------------------------------------------------------------
(* Magic sequences (IntoMagic): a single byte, a byte array, or a number   *)
(* wrapped in Le / Be.                                                     *)

into_magic(m) ==
    CASE m.form = "u8" -> m.val
      [] m.form = "array" -> m.val
      [] m.form = "Le" -> to_bytes(m.val, "Little")
      [] m.form = "Be" -> to_bytes(m.val, "Big")

(* Stream<dir::Read>                                                       *)

\* The two byte sequences of the mismatch error exchanged.
Read_magic_swapped(r, m, lost) ==
    LET expected == into_magic(m)
        rd == read_exact(r, Len(expected), lost)
        actual == rd.buf
    IN IF ~rd.ok THEN [reader |-> rd.rest, res |-> IncompleteData("magic", rd.err)]
       ELSE IF expected = actual THEN [reader |-> rd.rest, res |-> Ok(<<>>)]
       ELSE [reader |-> rd.rest, res |-> MagicMismatch(expected, actual)]

Read_magic(r, m, lost) ==
    LET expected == into_magic(m)
        rd == read_exact(r, Len(expected), lost)
        actual == rd.buf
    IN IF ~rd.ok THEN [reader |-> rd.rest, res |-> IncompleteData("magic", rd.err)]
       ELSE IF expected = actual THEN [reader |-> rd.rest, res |-> Ok(<<>>)]
       ELSE [reader |-> rd.rest, res |-> MagicMismatch(actual, expected)]

\* Padding required to be zero.
Read_pad_checked(r, n, lost) ==
    LET rd == read_exact(r, n, lost)
    IN IF ~rd.ok THEN [reader |-> rd.rest, res |-> IncompleteData("padding", rd.err)]
       ELSE IF rd.buf # Zeros(n)
       THEN [reader |-> rd.rest, res |-> Outcome("InvalidData", "padding", "", <<>>, <<>>, <<>>, <<>>, <<>>)]
       ELSE [reader |-> rd.rest, res |-> Ok(<<>>)]

Read_pad(r, n, lost) ==
    LET rd == read_exact(r, n, lost)
    IN IF ~rd.ok THEN [reader |-> rd.rest, res |-> IncompleteData("padding", rd.err)]
       ELSE [reader |-> rd.rest, res |-> Ok(<<>>)]

(* Stream<dir::Write>                                                      *)

Write_magic(w, m) == [writer |-> w \o into_magic(m), res |-> Ok(<<>>)]

Write_pad(w, n) == [writer |-> w \o Zeros(n), res |-> Ok(<<>>)]

-----------------------------------------------------------------------------
(* UTF-8 validation as String::from_utf8 performs it (core::str            *)
(* run_utf8_validation): the result is Ok, or a Utf8Error holding          *)
(* valid_up_to and error_len, where error_len is None when the input ends  *)
(* inside a character and Some(1..3) when a byte cannot continue it.       *)

None == [some |-> FALSE, val |-> 0]

Some(n) == [some |-> TRUE, val |-> n]

unwrap_or(opt, default) == IF opt.some THEN opt.val ELSE default

utf8_char_width(b) ==
    IF b < 128 THEN 1
    ELSE IF b >= 194 /\ b <= 223 THEN 2
    ELSE IF b >= 224 /\ b <= 239 THEN 3
    ELSE IF b >= 240 /\ b <= 244 THEN 4
    ELSE 0

IsContinuation(b) == b >= 128 /\ b <= 191

\* The range the second byte of a 3- or 4-byte character must lie in.
SecondByteOk(first, second) ==
    CASE first = 224 -> second >= 160 /\ second <= 191
      [] first = 237 -> second >= 128 /\ second <= 159
      [] first = 240 -> second >= 144 /\ second <= 191
      [] first = 244 -> second >= 128 /\ second <= 143
      [] OTHER -> IsContinuation(second)

Utf8Ok == [ok |-> TRUE, valid_up_to |-> 0, error_len |-> None]

Utf8Error(valid_up_to, error_len) ==
    [ok |-> FALSE, valid_up_to |-> valid_up_to, error_len |-> error_len]

\* Validation of s from index i + 1 on, the first i bytes being valid.
RECURSIVE run_utf8_validation(_, _)
run_utf8_validation(s, i) ==
    IF i >= Len(s) THEN Utf8Ok
    ELSE LET first == s[i + 1]
             w == utf8_char_width(first)
             n == Len(s) - i
         IN CASE w = 0 -> Utf8Error(i, Some(1))
              [] w = 1 -> run_utf8_validation(s, i + 1)
              [] w = 2 ->
                    IF n < 2 THEN Utf8Error(i, None)
                    ELSE IF ~IsContinuation(s[i + 2]) THEN Utf8Error(i, Some(1))
                    ELSE run_utf8_validation(s, i + 2)
              [] w = 3 ->
                    IF n < 2 THEN Utf8Error(i, None)
                    ELSE IF ~SecondByteOk(first, s[i + 2]) THEN Utf8Error(i, Some(1))
                    ELSE IF n < 3 THEN Utf8Error(i, None)
                    ELSE IF ~IsContinuation(s[i + 3]) THEN Utf8Error(i, Some(2))
                    ELSE run_utf8_validation(s, i + 3)
              [] w = 4 ->
                    IF n < 2 THEN Utf8Error(i, None)
                    ELSE IF ~SecondByteOk(first, s[i + 2]) THEN Utf8Error(i, Some(1))
                    ELSE IF n < 3 THEN Utf8Error(i, None)
                    ELSE IF ~IsContinuation(s[i + 3]) THEN Utf8Error(i, Some(2))
                    ELSE IF n < 4 THEN Utf8Error(i, None)
                    ELSE IF ~IsContinuation(s[i + 4]) THEN Utf8Error(i, Some(3))
                    ELSE run_utf8_validation(s, i + 4)

from_utf8(bytes) == run_utf8_validation(bytes, 0)

\* impl From<FromUtf8Error> for DecodeError
DecodeError_from(bytes, utf8_error) ==
    LET valid_up_to == utf8_error.valid_up_to
        invalid_to == valid_up_to + unwrap_or(utf8_error.error_len, 0)
        truncated == SubSeq(bytes, 1, invalid_to)
        invalid_bytes == Drop(truncated, valid_up_to)
        valid_prefix == SubSeq(truncated, 1, valid_up_to)
    IN DecodeUtf8Error(valid_prefix, invalid_bytes)

\* impl Decode<StrArgs> for String
\* The source put back where it was when the bytes read are malformed.
String_decode_with_rewinding(r, args, lost) ==
    LET rd == read_exact(r, args.count, lost)
        checked == from_utf8(rd.buf)
    IN IF ~rd.ok THEN [reader |-> rd.rest, res |-> IncompleteData("String", rd.err)]
       ELSE IF checked.ok THEN [reader |-> rd.rest, res |-> Ok(rd.buf)]
       ELSE [reader |-> r, res |-> DecodeError_from(rd.buf, checked)]

String_decode_with(r, args, lost) ==
    LET rd == read_exact(r, args.count, lost)
        checked == from_utf8(rd.buf)
    IN IF ~rd.ok THEN [reader |-> rd.rest, res |-> IncompleteData("String", rd.err)]
       ELSE IF checked.ok THEN [reader |-> rd.rest, res |-> Ok(rd.buf)]
       ELSE [reader |-> rd.rest, res |-> DecodeError_from(rd.buf, checked)]

\* impl Encode for String / str
String_encode_with(value, w) == [writer |-> w \o value, res |-> Ok(<<>>)]

-----------------------------------------------------------------------------
(* Types.  A type is plain data, the unit type, String, or a sequence      *)
(* (Vec<T> / Box<[T]>) of plain or unit elements.                          *)

PlainT(name) == [k |-> "plain", name |-> name, elem |-> ""]

UnitT == [k |-> "unit", name |-> "()", elem |-> ""]

StringT == [k |-> "String", name |-> "String", elem |-> ""]

VecT(elem) == [k |-> "Vec", name |-> "Vec", elem |-> elem]

ElemT(elem) ==
    CASE elem = "()" -> UnitT
      [] elem = "String" -> StringT
      [] OTHER -> PlainT(elem)

(* Arguments.  An element-argument iterator is the sequence of items it    *)
(* will still yield, or an endless repetition of its first item            *)
(* (std::iter::repeat).  An item is the unit value () or a number.         *)

Unit == [unit |-> TRUE, v |-> 0]

Val(n) == [unit |-> FALSE, v |-> n]

Iter(items) == [inf |-> FALSE, items |-> items]

Repeat(item) == [inf |-> TRUE, items |-> <<item>>]

Take(n) == Iter([i \in 1..n |-> Unit])

IterDone(it) == ~it.inf /\ it.items = <<>>

\* A repeated item handed out once.
IterNext_once(it) == Iter(Tail(it.items))

IterNext(it) == IF it.inf THEN it ELSE Iter(Tail(it.items))

VecArgs(element_args) == [element_args |-> element_args]

StrArgs(count) == [count |-> count]

\* Encode of one element of a sequence: plain data, a String or ().
Elem_encode_with(x, t, w, endian) ==
    CASE t.k = "plain" -> plain_data_encode_with(x, w, endian)
      [] t.k = "String" -> String_encode_with(x, w)
      [] OTHER -> [writer |-> w, res |-> Ok(<<>>)]

\* Decode of one element of a sequence with its argument: plain data and ()
\* take the argument (), a String takes its StrArgs.
Elem_decode_with(r, t, endian, arg, lost) ==
    CASE t.k = "plain" -> plain_data_decode_with(r, t.name, endian, lost)
      [] t.k = "String" -> String_decode_with(r, StrArgs(arg.v), lost)
      [] OTHER -> [reader |-> r, res |-> Ok(<<>>)]

\* The element written before its argument is asked for.
RECURSIVE encode_iter_eager(_, _, _, _, _, _)
encode_iter_eager(w, type_name, endian, t, iter, args) ==
    IF iter = <<>> THEN [writer |-> w, res |-> Ok(<<>>)]
    ELSE LET step == Elem_encode_with(Head(iter), t, w, endian)
         IN IF IterDone(args)
            THEN [writer |-> step.writer,
                  res |-> InvalidArgument(type_name, "not enough arguments")]
            ELSE IF step.res.kind # "Ok" THEN step
            ELSE encode_iter_eager(step.writer, type_name, endian, t, Tail(iter), IterNext(args))

\* fn encode_iter: one argument per element, in order; the first missing
\* argument or failing element ends the loop (try_for_each).
RECURSIVE encode_iter(_, _, _, _, _, _)
encode_iter(w, type_name, endian, t, iter, args) ==
    IF iter = <<>> THEN [writer |-> w, res |-> Ok(<<>>)]
    ELSE IF IterDone(args)
    THEN [writer |-> w, res |-> InvalidArgument(type_name, "not enough arguments")]
    ELSE LET step == Elem_encode_with(Head(iter), t, w, endian)
         IN IF step.res.kind # "Ok" THEN step
            ELSE encode_iter(step.writer, type_name, endian, t, Tail(iter), IterNext(args))

\* impl Encode<VecArgs<Args>> for [T] (Vec<T> derefs to it), SliceView, SliceViewRef
Seq_encode_with(container, w, endian, t, elems, args) ==
    encode_iter(w, container, endian, t, elems, args.element_args)

\* The elements decoded before the first error returned as the result.
RECURSIVE Vec_decode_loop_partial(_, _, _, _, _, _)
Vec_decode_loop_partial(r, endian, t, items, acc, lost) ==
    IF items = <<>> THEN [reader |-> r, res |-> Ok(acc)]
    ELSE LET step == Elem_decode_with(r, t, endian, Head(items), lost)
         IN IF step.res.kind # "Ok" THEN [reader |-> step.reader, res |-> Ok(acc)]
            ELSE Vec_decode_loop_partial(step.reader, endian, t, Tail(items),
                                         Append(acc, step.res.value), lost)

\* The projected elements in the reverse of the base slice's order.
View_into_iter_reversed(base_slice, projector) ==
    [i \in 1..Len(base_slice) |-> base_slice[Len(base_slice) + 1 - i][projector]]

\* SliceView / SliceViewRef into_iter: base_slice.iter().map(projector), the
\* projector taking one component of a pair
View_into_iter(base_slice, projector) ==
    [i \in 1..Len(base_slice) |-> base_slice[i][projector]]

\* impl Encode<VecArgs<Args>> for SliceView / SliceViewRef
View_encode_with(container, w, endian, t, base_slice, projector, args) ==
    encode_iter(w, container, endian, t, View_into_iter(base_slice, projector),
                args.element_args)

\* impl Decode<VecArgs<Args>> for Vec<T>: one element per argument,
\* collected into a Result: the first element error is the result.
RECURSIVE Vec_decode_loop(_, _, _, _, _, _)
Vec_decode_loop(r, endian, t, items, acc, lost) ==
    IF items = <<>> THEN [reader |-> r, res |-> Ok(acc)]
    ELSE LET step == Elem_decode_with(r, t, endian, Head(items), lost)
         IN IF step.res.kind # "Ok" THEN step
            ELSE Vec_decode_loop(step.reader, endian, t, Tail(items),
                                 Append(acc, step.res.value), lost)

Vec_decode_with(r, endian, t, args, lost) ==
    Vec_decode_loop(r, endian, t, args.element_args.items, <<>>, lost)

\* Vec::into_boxed_slice: the same elements in the same order
into_boxed_slice(v) == [i \in 1..Len(v) |-> v[i]]

\* impl Decode<VecArgs<Args>> for Box<[T]>
Box_decode_with(r, endian, t, args, lost) ==
    LET out == Vec_decode_with(r, endian, t, args, lost)
    IN [reader |-> out.reader,
        res |-> IF out.res.kind = "Ok" THEN Ok(into_boxed_slice(out.res.value)) ELSE out.res]

-----------------------------------------------------------------------------
(* Argument builders.  The state of a builder is the type-state of its     *)
(* parameter: Required (unset) or Provided(value).                         *)

Required == [provided |-> FALSE, element_args |-> Iter(<<>>), count |-> 0]

ProvidedArgs(it) == [provided |-> TRUE, element_args |-> it, count |-> 0]

ProvidedCount(n) == [provided |-> TRUE, element_args |-> Iter(<<>>), count |-> n]

\* Context<dir::Read>::args_builder() of Vec<T>, Box<[T]>: VecArgsBuilder::default()
VecArgsBuilder_default == [type |-> "Vec", state |-> Required]

\* Context<dir::Write>::args_builder() of Vec<T>, [T], the views: VecArgsBuilder::new()
VecArgsBuilder_new == [type |-> "Vec", state |-> ProvidedArgs(Repeat(Unit))]

\* Context<dir::Read>::args_builder() of String, Box<str>: StrArgsBuilder::default()
StrArgsBuilder_default == [type |-> "Str", state |-> Required]

\* The receiver types the setters and finish are implemented for.
CanArgs(b) == b.type = "Vec"

CanCount(b) == ~b.state.provided

CanArg(b) ==
    /\ b.type = "Vec"
    /\ b.state.provided
    /\ \A i \in 1..Len(b.state.element_args.items) : b.state.element_args.items[i].unit

CanMapArg(b) == b.type = "Vec" /\ b.state.provided

\* finish implemented for every state of the builder.
CanFinish_any(b) == TRUE

CanFinish(b) == b.state.provided

MapIter(it, f(_)) == [inf |-> it.inf, items |-> [i \in 1..Len(it.items) |-> f(it.items[i])]]

VecArgsBuilder_args(b, items) == [type |-> "Vec", state |-> ProvidedArgs(Iter(items))]

\* One parameter more than asked for.
VecArgsBuilder_count_more(b, n) == [type |-> "Vec", state |-> ProvidedArgs(Take(n + 1))]

VecArgsBuilder_count(b, n) == [type |-> "Vec", state |-> ProvidedArgs(Take(n))]

VecArgsBuilder_arg(b, a) ==
    [type |-> "Vec", state |-> ProvidedArgs(MapIter(b.state.element_args, LAMBDA x : Val(a)))]

\* map_arg with the function |x| x + d
VecArgsBuilder_map_arg(b, d) ==
    [type |-> "Vec",
     state |-> ProvidedArgs(MapIter(b.state.element_args, LAMBDA x : Val(x.v + d)))]

VecArgsBuilder_finish(b) == VecArgs(b.state.element_args)

StrArgsBuilder_count(b, n) == [type |-> "Str", state |-> ProvidedCount(n)]

StrArgsBuilder_finish(b) == StrArgs(b.state.count)

-----------------------------------------------------------------------------
(* Stream-level sessions: one source or one sink, and the library's        *)
(* operations applied to it one after another.                             *)

MaxElems == 3       \* longest sequence encoded at stream level

NoBuilder == [type |-> "None", state |-> Required]

\* A builder that finish has consumed.
Finished == [type |-> "Finished", state |-> Required]

Sources == SeqsUpTo(SourceBytes, MaxSourceLen)

\* Sources of the sessions that decode through an argument builder.
BuilderSources == SeqsUpTo({97, 195}, MaxSourceLen)

\* magic(0x12_u8), magic([0x12, 0x34]), magic([0x34, 0x12]), magic(Le(0x1234_u16)),
\* magic(Be(0x1234_u16)), magic([])
Magics ==
    {[form |-> "u8", val |-> <<18>>], [form |-> "array", val |-> <<18, 52>>],
     [form |-> "array", val |-> <<52, 18>>], [form |-> "Le", val |-> <<18, 52>>],
     [form |-> "Be", val |-> <<18, 52>>], [form |-> "array", val |-> <<>>]}

\* 16-bit values: 0, 1, 0xFF, 0x100, 0x1234, 0x3412, 0x8000, 0xFFFF
Values16 == {0, 1, 255, 256, 4660, 13330, 32768, 65535}

U16(v) == <<v \div 256, v % 256>>

PlainValues(t) ==
    CASE t = "u8" -> {<<0>>, <<18>>, <<255>>}
      [] t = "u16" -> {U16(v) : v \in Values16}
      [] t = "u32" -> {<<222, 173, 190, 239>>}
      [] t = "f32" -> {<<64, 73, 15, 219>>}
      [] t = "i64" -> {<<17, 34, 51, 68, 85, 102, 119, 136>>}

\* Elements of the sequences encoded at stream level.
ElemValues(t) ==
    CASE t = "u8" -> {<<18>>, <<52>>}
      [] t = "u16" -> {<<18, 52>>, <<0, 1>>}
      [] t = "()" -> {<<>>}

ElemTypes == {"u8", "u16", "()"}

Containers == {"Vec", "SliceView", "SliceViewRef"}

\* "", "a", "\u{c2}", "a\u{c2}"
Strings == {<<>>, <<97>>, <<195, 130>>, <<97, 195, 130>>}

\* Explicit argument sequences handed to VecArgsBuilder::args
ArgSeqs == {<<>>, <<Unit, Unit>>, <<Val(1), Val(2), Val(3)>>}

Did(op, src, n, bytes, endian, type, container, elems, args) ==
    [op |-> op, src |-> src, n |-> n, bytes |-> bytes, endian |-> endian,
     type |-> type, container |-> container, elems |-> elems, args |-> args]

Nothing == Did("", <<>>, 0, <<>>, "", "", "", <<>>, Iter(<<>>))

\* No record procedure runs in a stream-level session.
NoRecord ==
    /\ record = [name |-> "", endian |-> "none", entries |-> <<>>]
    /\ scope = "NoEndian" /\ flow = "" /\ stage = 0 /\ pc = "" /\ idx = 0
    /\ bound = Empty /\ bound1 = Empty /\ self = Empty /\ input = <<>> /\ trace = <<>>

\* No declaration, no expansion of one, no verdict of the compiler.
NoDecl == [name |-> "", attrs |-> <<>>, entries |-> <<>>]

NoExpansion ==
    [items |-> {}, fields |-> {}, global_endian |-> "none", decode_with |-> <<>>,
     compile_errors |-> <<>>, field_args |-> <<>>, panic |-> ""]

NoVerdict == [verdict |-> "", errors |-> <<>>]

\* No declaration is being compiled.
NoMacro == decl = NoDecl /\ expansion = NoExpansion /\ rustc = NoVerdict

InitStream ==
    /\ NoRecord /\ NoMacro
    /\ given = <<>>
    /\ writer = <<>>
    /\ last = Nothing
    /\ result = NoOutcome
    /\ calls = <<>>
    /\ \/ dir = "Read" /\ reader \in Sources /\ builder = NoBuilder
       \/ /\ dir = "Read"
          /\ reader \in BuilderSources
          /\ builder \in {VecArgsBuilder_default, StrArgsBuilder_default}
       \/ dir = "Write" /\ reader = <<>> /\ builder = NoBuilder

ReadSession == dir = "Read" /\ builder.type = "None"

WriteSession == dir = "Write" /\ Len(writer) <= MaxSinkLen

StreamReadMagic ==
    /\ ReadSession
    /\ \E m \in Magics, lost \in Lost(reader) :
         LET out == Read_magic(reader, m, lost)
         IN /\ reader' = out.reader
            /\ result' = out.res
            /\ last' = Did("magic", reader, 0, into_magic(m), "", "", "", <<>>, Iter(<<>>))
    /\ UNCHANGED <<writer, dir, builder, calls, given, recVars, macroVars>>

StreamReadPad ==
    /\ ReadSession
    /\ \E n \in 0..MaxPad, lost \in Lost(reader) :
         LET out == Read_pad(reader, n, lost)
         IN /\ reader' = out.reader
            /\ result' = out.res
            /\ last' = Did("pad", reader, n, <<>>, "", "", "", <<>>, Iter(<<>>))
    /\ UNCHANGED <<writer, dir, builder, calls, given, recVars, macroVars>>

PlainDecode ==
    /\ ReadSession
    /\ \E t \in {"u8", "u16", "u32"}, endian \in Endians, lost \in Lost(reader) :
         LET out == plain_data_decode_with(reader, t, endian, lost)
         IN /\ reader' = out.reader
            /\ result' = out.res
            /\ last' = Did("decode", reader, size_of(t), <<>>, endian, t, "", <<>>, Iter(<<>>))
    /\ UNCHANGED <<writer, dir, builder, calls, given, recVars, macroVars>>

\* String::decode_with with arguments built directly (StrArgs { count })
StringDecode ==
    /\ ReadSession
    /\ \E n \in 0..MaxCount, lost \in Lost(reader) :
         LET out == String_decode_with(reader, StrArgs(n), lost)
         IN /\ reader' = out.reader
            /\ result' = out.res
            /\ last' = Did("decode", reader, n, <<>>, "", "String", "", <<>>, Iter(<<>>))
    /\ UNCHANGED <<writer, dir, builder, calls, given, recVars, macroVars>>

StreamWriteMagic ==
    /\ WriteSession
    /\ \E m \in Magics :
         LET out == Write_magic(writer, m)
         IN /\ writer' = out.writer
            /\ result' = out.res
            /\ last' = Did("magic", writer, 0, into_magic(m), "", "", "", <<>>, Iter(<<>>))
    /\ UNCHANGED <<reader, dir, builder, calls, given, recVars, macroVars>>

StreamWritePad ==
    /\ WriteSession
    /\ \E n \in 0..MaxPad :
         LET out == Write_pad(writer, n)
         IN /\ writer' = out.writer
            /\ result' = out.res
            /\ last' = Did("pad", writer, n, <<>>, "", "", "", <<>>, Iter(<<>>))
    /\ UNCHANGED <<reader, dir, builder, calls, given, recVars, macroVars>>

PlainEncode ==
    /\ WriteSession
    /\ \E t \in {"u8", "u16", "u32"}, endian \in Endians :
         \E v \in PlainValues(t) :
           LET out == plain_data_encode_with(v, writer, endian)
           IN /\ writer' = out.writer
              /\ result' = out.res
              /\ last' = Did("encode", writer, size_of(t), v, endian, t, "", <<>>, Iter(<<>>))
    /\ UNCHANGED <<reader, dir, builder, calls, given, recVars, macroVars>>

StringEncode ==
    /\ WriteSession
    /\ \E v \in Strings :
         LET out == String_encode_with(v, writer)
         IN /\ writer' = out.writer
            /\ result' = out.res
            /\ last' = Did("encode", writer, Len(v), v, "", "String", "", <<>>, Iter(<<>>))
    /\ UNCHANGED <<reader, dir, builder, calls, given, recVars, macroVars>>

\* Encode of a sequence (one per session, after any other writes): with the
\* default write-side arguments or with the k arguments of count(k).
SeqEncode ==
    /\ WriteSession
    /\ last.container = ""
    /\ \E container \in Containers, t \in ElemTypes, endian \in Endians :
         \E elems \in SeqsUpTo(ElemValues(t), MaxElems),
            args \in {VecArgsBuilder_finish(VecArgsBuilder_new)}
                     \cup {VecArgsBuilder_finish(VecArgsBuilder_count(VecArgsBuilder_default, k)) :
                             k \in 0..MaxCount} :
           LET out == Seq_encode_with(container, writer, endian, ElemT(t), elems, args)
           IN /\ writer' = out.writer
              /\ result' = out.res
              /\ last' = Did("encode", writer, Len(elems), <<>>, endian, t, container,
                             elems, args.element_args)
    /\ UNCHANGED <<reader, dir, builder, calls, given, recVars, macroVars>>

\* The pairs (u8, u16) of the base slice of a view
Pairs == {<<<<1>>, <<0, 10>>>>, <<<<2>>, <<1, 20>>>>}

\* SliceView::new(base, p).encode_with / SliceViewRef::new(base, p).encode_with
ViewEncode ==
    /\ WriteSession
    /\ last.container = ""
    /\ \E container \in {"SliceView", "SliceViewRef"}, projector \in 1..2, endian \in Endians :
         \E base_slice \in SeqsUpTo(Pairs, MaxElems),
            args \in {VecArgsBuilder_finish(VecArgsBuilder_new)}
                     \cup {VecArgsBuilder_finish(VecArgsBuilder_count(VecArgsBuilder_default, k)) :
                             k \in 0..MaxCount} :
           LET t == IF projector = 1 THEN "u8" ELSE "u16"
               out == View_encode_with(container, writer, endian, ElemT(t), base_slice,
                                       projector, args)
           IN /\ writer' = out.writer
              /\ result' = out.res
              /\ last' = Did("encode_view", writer, projector, <<>>, endian, t, container,
                             base_slice, args.element_args)
    /\ UNCHANGED <<reader, dir, builder, calls, given, recVars, macroVars>>

\* The argument an element type's codec takes: () for plain data and (),
\* StrArgs for a String being decoded.
ArgsFit(t, items) ==
    \A i \in 1..Len(items) : items[i].unit <=> t # "String"

Building == builder.type \in {"Vec", "Str"}

BuilderArgs ==
    /\ Building /\ Len(calls) < MaxCalls
    /\ CanArgs(builder)
    /\ \E items \in ArgSeqs :
         /\ builder' = VecArgsBuilder_args(builder, items)
         /\ given' = Append(given, items)
    /\ calls' = Append(calls, "args")
    /\ UNCHANGED <<reader, writer, dir, last, result, recVars, macroVars>>

BuilderCount ==
    /\ Building /\ Len(calls) < MaxCalls
    /\ CanCount(builder)
    /\ \E n \in 0..MaxCount :
         /\ builder' = IF builder.type = "Vec" THEN VecArgsBuilder_count(builder, n)
                       ELSE StrArgsBuilder_count(builder, n)
         /\ given' = Append(given, n)
    /\ calls' = Append(calls, "count")
    /\ UNCHANGED <<reader, writer, dir, last, result, recVars, macroVars>>

BuilderArg ==
    /\ Building /\ Len(calls) < MaxCalls
    /\ CanArg(builder)
    /\ \E a \in {1, 2} :
         /\ builder' = VecArgsBuilder_arg(builder, a)
         /\ given' = Append(given, a)
    /\ calls' = Append(calls, "arg")
    /\ UNCHANGED <<reader, writer, dir, last, result, recVars, macroVars>>

BuilderMapArg ==
    /\ Building /\ Len(calls) < MaxCalls
    /\ CanMapArg(builder)
    /\ \E d \in {1} :
         /\ builder' = VecArgsBuilder_map_arg(builder, d)
         /\ given' = Append(given, d)
    /\ calls' = Append(calls, "map_arg")
    /\ UNCHANGED <<reader, writer, dir, last, result, recVars, macroVars>>

\* ArgsBuilderFinished::finish, and decode_with called with the arguments it
\* returns: the builder is consumed.
BuilderFinishDecode ==
    /\ Building
    /\ CanFinish(builder)
    /\ \/ /\ builder.type = "Vec"
          /\ \E t \in ElemTypes \cup {"String"}, endian \in Endians, lost \in Lost(reader),
                container \in {"Vec", "Box<[T]>"} :
               LET args == VecArgsBuilder_finish(builder)
                   out == IF container = "Vec"
                          THEN Vec_decode_with(reader, endian, ElemT(t), args, lost)
                          ELSE Box_decode_with(reader, endian, ElemT(t), args, lost)
               IN /\ ArgsFit(t, args.element_args.items)
                  /\ reader' = out.reader
                  /\ result' = out.res
                  /\ last' = Did("decode", reader, Len(args.element_args.items), <<>>, endian,
                                 t, container, <<>>, args.element_args)
       \/ /\ builder.type = "Str"
          /\ \E lost \in Lost(reader) :
               LET args == StrArgsBuilder_finish(builder)
                   out == String_decode_with(reader, args, lost)
               IN /\ reader' = out.reader
                  /\ result' = out.res
                  /\ last' = Did("decode", reader, args.count, <<>>, "", "String", "", <<>>,
                                 Iter(<<>>))
    /\ builder' = Finished
    /\ UNCHANGED <<writer, dir, calls, given, recVars, macroVars>>

-----------------------------------------------------------------------------
(* Record types (bin_data!).  A record type is its record-level endian     *)
(* option and its entries in declared order.  An entry is a directive      *)
(* (@magic, @pad) or a field; a field is persistent (`name: T`) or a       *)
(* temporary (`let name: T`) and carries its extracted options: the local  *)
(* endian ("" when absent), the decode and encode overrides, and the       *)
(* decode-side `count` argument of a sequence or text field.               *)

\* Option expressions: absent, `name` (or `*name`), `name.len() as T`, a literal.
NoExpr == [x |-> "none", name |-> "", val |-> <<>>]

Ref(name) == [x |-> "ref", name |-> name, val |-> <<>>]

LenOf(name) == [x |-> "len", name |-> name, val |-> <<>>]

Lit(val) == [x |-> "lit", name |-> "", val |-> val]

\* std::iter::zip(a, b).collect()
Zip(a, b) == [x |-> "zip", name |-> a, val |-> <<>>, with |-> b]

\* SliceView::new(name, projector) / SliceViewRef::new(name, projector), the
\* projector taking component p of a pair
ViewOf(container, name, p) == [x |-> container, name |-> name, val |-> <<p>>]

\* Box<[(u8, u16)]>
PairsT == [k |-> "Pairs", name |-> "Box<[(u8, u16)]>", elem |-> "(u8, u16)"]

\* Entry::Directive
Directive(directive, m, n) ==
    [e |-> "Directive", directive |-> directive, magic |-> m, n |-> n,
     kind |-> "", name |-> "", type |-> UnitT, endian |-> "",
     decode |-> NoExpr, encode |-> NoExpr, count |-> NoExpr, arg |-> NoExpr]

\* Entry::Field with the ExtractedArgs of its attributes
Field(kind, name, type, local_endian, decode, encode, count) ==
    [e |-> "Field", directive |-> "", magic |-> [form |-> "array", val |-> <<>>], n |-> 0,
     kind |-> kind, name |-> name, type |-> type, endian |-> local_endian,
     decode |-> decode, encode |-> encode, count |-> count, arg |-> NoExpr]

\* The field with `arg = a` in its args:decode and args:encode.
WithArg(entry, a) == [entry EXCEPT !.arg = a]

\* The k-th base-256 digit of a length (lengths stay below 2^24).
Digit(n, k) == IF k >= 3 THEN 0 ELSE (n \div (256 ^ k)) % 256

\* `n as T` for a length n and a plain type of w bytes
Digits(n, w) == [i \in 1..w |-> Digit(n, w - i)]

\* `d as usize`; values of 2^16 and more are all taken for 2^16, a count no
\* modelled source can serve.
AsUsize(d) ==
    LET n == Len(d)
        low(k) == IF n > k THEN d[n - k] ELSE 0
    IN IF \E i \in 1..(n - 2) : d[i] # 0 THEN 65536
       ELSE low(0) + 256 * low(1)

\* The pairs with their components exchanged.
zip_swapped(xs, ys) ==
    LET n == IF Len(xs) <= Len(ys) THEN Len(xs) ELSE Len(ys)
    IN [i \in 1..n |-> <<ys[i], xs[i]>>]

\* std::iter::zip(xs, ys).collect(): the pairs (xs[i], ys[i]), as many as
\* the shorter sequence has elements
zip(xs, ys) ==
    LET n == IF Len(xs) <= Len(ys) THEN Len(xs) ELSE Len(ys)
    IN [i \in 1..n |-> <<xs[i], ys[i]>>]

\* The value of an option expression under the bindings b, at type t.
Value(expr, b, t) ==
    CASE expr.x = "ref" -> b[expr.name]
      [] expr.x = "len" -> Digits(Len(b[expr.name]), size_of(t.name))
      [] expr.x = "zip" -> zip(b[expr.name], b[expr.with])
      [] expr.x \in {"SliceView", "SliceViewRef"} ->
           [base_slice |-> b[expr.name], projector |-> expr.val[1]]
      [] OTHER -> expr.val

\* let name = v
Bind(b, name, v) == (name :> v) @@ b

\* Every type taken to want a direction.
EndianContext_endian(t) == "Endian"

\* Context::EndianContext of a type: Endian for plain data, NoEndian for ()
\* and String, the element's for a sequence.
EndianContext(t) ==
    CASE t.k = "plain" -> "Endian"
      [] t.k \in {"Le", "Be"} -> "NoEndian"
      [] t.k \in {"Vec", "BoxSlice"} ->
           IF ElemT(t.elem).k = "plain" THEN "Endian" ELSE "NoEndian"
      [] OTHER -> "NoEndian"

\* Endian::into_context::<E>() is E::with_endian(self)
into_context(e, ctx) == IF ctx = "Endian" THEN e ELSE "NoEndian"

\* The directions of the local overrides exchanged.
decide_endian_swapped(local_endian, global_endian) ==
    IF local_endian = ""
    THEN IF global_endian # "none" THEN "endian.into_context()" ELSE "NoEndian"
    ELSE CASE local_endian = "none" -> "NoEndian"
           [] local_endian = "little" -> "Endian::Big"
           [] local_endian = "big" -> "Endian::Little"
           [] local_endian = "inherit" -> "endian"

\* The local override ignored.
decide_endian_global(local_endian, global_endian) ==
    IF global_endian # "none" THEN "endian.into_context()" ELSE "NoEndian"

\* A local none taken for no override at all.
decide_endian_none_absent(local_endian, global_endian) ==
    IF local_endian \in {"", "none"}
    THEN IF global_endian # "none" THEN "endian.into_context()" ELSE "NoEndian"
    ELSE CASE local_endian = "little" -> "Endian::Little"
           [] local_endian = "big" -> "Endian::Big"
           [] local_endian = "inherit" -> "endian"

\* fn decide_endian: the expression handed to the field's codec as its endian.
decide_endian(local_endian, global_endian) ==
    IF local_endian = ""
    THEN IF global_endian # "none" THEN "endian.into_context()" ELSE "NoEndian"
    ELSE CASE local_endian = "none" -> "NoEndian"
           [] local_endian = "little" -> "Endian::Little"
           [] local_endian = "big" -> "Endian::Big"
           [] local_endian = "inherit" -> "endian"

\* The value of that expression where `endian` is in_scope, for a field of type t.
EndianOf(expression, in_scope, t) ==
    CASE expression = "endian.into_context()" -> into_context(in_scope, EndianContext(t))
      [] expression = "NoEndian" -> "NoEndian"
      [] expression = "Endian::Little" -> "Little"
      [] expression = "Endian::Big" -> "Big"
      [] expression = "endian" -> in_scope

\* EndianConfig::endian_input: the type of the procedures' endian argument,
\* Endian for an inheriting record and NoEndian otherwise.
endian_input(global_endian) ==
    IF global_endian = "inherit" THEN Endians ELSE {"NoEndian"}

\* EndianConfig::endian_overwrite: a record declaring little or big rebinds
\* `endian` to that direction before its entries run.
endian_overwrite(global_endian, arg) ==
    CASE global_endian = "little" -> "Little"
      [] global_endian = "big" -> "Big"
      [] OTHER -> arg

\* T::decode_with for the type of a field
Type_decode_with(r, t, e, args, lost) ==
    CASE t.k = "plain" -> plain_data_decode_with(r, t.name, e, lost)
      [] t.k = "String" -> String_decode_with(r, args, lost)
      [] t.k = "Vec" -> Vec_decode_with(r, e, ElemT(t.elem), args, lost)
      [] OTHER -> [reader |-> r, res |-> Ok(<<>>)]

\* T::encode_with for the type of a field
Type_encode_with(x, t, w, e, args) ==
    CASE t.k = "plain" -> plain_data_encode_with(x, w, e)
      [] t.k = "String" -> String_encode_with(x, w)
      [] t.k = "Vec" -> Seq_encode_with("Vec", w, e, ElemT(t.elem), x, args)
      [] OTHER -> [writer |-> w, res |-> Ok(<<>>)]

(* The wrappers Le<T> and Be<T>: data of a fixed byte order.               *)

\* Le<T> / Be<T>, for T a plain type, () or String
WrapT(wrapper, elem) == [k |-> wrapper, name |-> wrapper, elem |-> elem]

\* Le(value) / Be(value)
Wrap(wrapper, value) == [wrapper |-> wrapper, v |-> value]

\* Big for both wrappers.
Wrapper_endian_big(wrapper) == "Big"

\* Endian::Little in Le, Endian::Big in Be
Wrapper_endian(wrapper) == IF wrapper = "Le" THEN "Little" ELSE "Big"

\* impl Decode<Args> for Le<T> / Be<T>: the endian handed in is not used.
Wrapped_decode_with(r, t, outer, args, lost) ==
    LET inner == ElemT(t.elem)
        e == into_context(Wrapper_endian(t.k), EndianContext(inner))
        out == Type_decode_with(r, inner, e, args, lost)
    IN [reader |-> out.reader,
        res |-> IF out.res.kind = "Ok" THEN Ok(Wrap(t.k, out.res.value)) ELSE out.res]

\* impl Encode<Args> for Le<T> / Be<T>
Wrapped_encode_with(x, t, w, outer, args) ==
    LET inner == ElemT(t.elem)
    IN Type_encode_with(x.v, inner, w,
                        into_context(Wrapper_endian(t.k), EndianContext(inner)), args)

\* The values of the types wrapped in a session.
WrappedValues(elem) == IF elem = "String" THEN Strings ELSE PlainValues(elem)

\* Le::<T>::decode_with / Be::<T>::decode_with as the first operation of a
\* session, for T = u16 and T = String (with count(n) on the wrapper's
\* builder, which is T's).
WrapperDecode ==
    /\ ReadSession /\ last = Nothing
    /\ \E wrapper \in {"Le", "Be"}, elem \in {"u16", "String"}, n \in 0..MaxCount,
          lost \in Lost(reader) :
         LET t == WrapT(wrapper, elem)
             args == IF elem = "String" THEN StrArgs(n) ELSE Unit
             out == Wrapped_decode_with(reader, t, EndianContext(t), args, lost)
         IN /\ elem = "String" \/ n = 0
            /\ reader' = out.reader
            /\ result' = out.res
            /\ last' = Did("decode_wrapped", reader, n, <<>>, EndianContext(t), elem,
                           wrapper, <<>>, Iter(<<>>))
    /\ UNCHANGED <<writer, dir, builder, calls, given, recVars, macroVars>>

\* Le(v).encode_with / Be(v).encode_with
WrapperEncode ==
    /\ WriteSession /\ last.container = ""
    /\ \E wrapper \in {"Le", "Be"}, elem \in {"u16", "String"} :
         \E v \in WrappedValues(elem) :
           LET t == WrapT(wrapper, elem)
               out == Wrapped_encode_with(Wrap(wrapper, v), t, writer, EndianContext(t), Unit)
           IN /\ writer' = out.writer
              /\ result' = out.res
              /\ last' = Did("encode_wrapped", writer, Len(v), v, EndianContext(t), elem,
                             wrapper, <<>>, Iter(<<>>))
    /\ UNCHANGED <<reader, dir, builder, calls, given, recVars, macroVars>>

NextStream ==
    \/ StreamReadMagic
    \/ StreamReadPad
    \/ PlainDecode
    \/ StringDecode
    \/ StreamWriteMagic
    \/ StreamWritePad
    \/ PlainEncode
    \/ StringEncode
    \/ SeqEncode
    \/ ViewEncode
    \/ WrapperDecode
    \/ WrapperEncode
    \/ BuilderArgs
    \/ BuilderCount
    \/ BuilderArg
    \/ BuilderMapArg
    \/ BuilderFinishDecode

SpecStream == InitStream /\ [][NextStream]_vars

\* ArgsBuilderFinished::finish(<T as Context<dir::Read>>::args_builder() #arg_setters)
DecodeArgs(entry, b) ==
    LET n == AsUsize(Value(entry.count, b, entry.type))
        counted == VecArgsBuilder_count(VecArgsBuilder_default, n)
    IN CASE entry.type.k = "Vec" ->
              VecArgsBuilder_finish(
                  IF entry.arg.x = "none" THEN counted
                  ELSE VecArgsBuilder_arg(counted, AsUsize(entry.arg.val)))
         [] entry.type.k = "String" ->
              StrArgsBuilder_finish(StrArgsBuilder_count(StrArgsBuilder_default, n))
         [] OTHER -> Unit

\* ArgsBuilderFinished::finish(<T as Context<dir::Write>>::args_builder())
\* (args_builder_of_val(&name) of an overridden field is the same builder)
EncodeArgs(entry) ==
    IF entry.type.k = "Vec"
    THEN VecArgsBuilder_finish(
             IF entry.arg.x = "none" THEN VecArgsBuilder_new
             ELSE VecArgsBuilder_arg(VecArgsBuilder_new, AsUsize(entry.arg.val)))
    ELSE Unit

\* fn decode_entry: the statement generated for one entry, run on the source r
\* under the bindings b; `endian` is the endian it hands to the field's codec.
decode_entry(global_endian, entry, in_scope, b, r, lost) ==
    IF entry.e = "Directive"
    THEN LET d == IF entry.directive = "magic" THEN Read_magic(r, entry.magic, lost)
                  ELSE Read_pad(r, entry.n, lost)
         IN [reader |-> d.reader, res |-> d.res, bound |-> b, endian |-> ""]
    ELSE IF entry.decode.x # "none"
    THEN [reader |-> r, res |-> Ok(<<>>),
          bound |-> Bind(b, entry.name, Value(entry.decode, b, entry.type)), endian |-> ""]
    ELSE LET e == EndianOf(decide_endian(entry.endian, global_endian), in_scope, entry.type)
             d == Type_decode_with(r, entry.type, e, DecodeArgs(entry, b), lost)
         IN [reader |-> d.reader, res |-> d.res,
             bound |-> IF d.res.kind = "Ok" THEN Bind(b, entry.name, d.res.value) ELSE b,
             endian |-> e]

\* fn encode_entry: the statement generated for one entry, run on the sink w.
encode_entry(global_endian, entry, in_scope, b, w) ==
    IF entry.e = "Directive"
    THEN LET d == IF entry.directive = "magic" THEN Write_magic(w, entry.magic)
                  ELSE Write_pad(w, entry.n)
         IN [writer |-> d.writer, res |-> d.res, endian |-> ""]
    ELSE LET e == EndianOf(decide_endian(entry.endian, global_endian), in_scope, entry.type)
             d == IF entry.kind = "Temp" /\ entry.encode.x \in {"SliceView", "SliceViewRef"}
                  THEN View_encode_with(entry.encode.x, w, e, ElemT(entry.type.elem),
                                        b[entry.name].base_slice, b[entry.name].projector,
                                        EncodeArgs(entry))
                  ELSE Type_encode_with(b[entry.name], entry.type, w, e, EncodeArgs(entry))
         IN [writer |-> d.writer, res |-> d.res, endian |-> e]

\* The names of all fields, the temporaries too.
fields_all(r) ==
    {r.entries[i].name : i \in {j \in 1..Len(r.entries) : r.entries[j].e = "Field"}}

\* Input::fields: the names of the persistent fields.
fields(r) ==
    {r.entries[i].name : i \in {j \in 1..Len(r.entries) : r.entries[j].kind = "Field"}}

\* Ok(Self { #(#fields),* })
SelfOf(r, b) == [n \in fields(r) |-> b[n]]

\* No temporary bound.
temps_none(r, i, b) == b

\* impl_encode, temps: every temporary bound to its encode override, in
\* declared order, after `let Self { .. } = self`.
RECURSIVE temps(_, _, _)
temps(r, i, b) ==
    IF i > Len(r.entries) THEN b
    ELSE LET entry == r.entries[i]
         IN IF entry.kind = "Temp"
            THEN temps(r, i + 1, Bind(b, entry.name, Value(entry.encode, b, entry.type)))
            ELSE temps(r, i + 1, b)

\* The temporaries dropped as well.
RECURSIVE Keep_persistent(_, _)
Keep_persistent(r, i) ==
    IF i > Len(r.entries) THEN <<>>
    ELSE IF r.entries[i].decode.x = "none" /\ r.entries[i].kind # "Temp"
    THEN <<i>> \o Keep_persistent(r, i + 1)
    ELSE Keep_persistent(r, i + 1)

RECURSIVE Keep(_, _)
Keep(r, i) ==
    IF i > Len(r.entries) THEN <<>>
    ELSE IF r.entries[i].decode.x = "none" THEN <<i>> \o Keep(r, i + 1)
    ELSE Keep(r, i + 1)

\* Every entry encoded, the fields with a decode override too.
entries_all(r) == [i \in 1..Len(r.entries) |-> i]

\* impl_encode, entries: the entries that are encoded, in declared order:
\* the directives and the fields without a decode override.
entries(r) == Keep(r, 1)

-----------------------------------------------------------------------------
(* The record types of the model.                                          *)

\* tests/all_syntax_supported.rs
Test ==
    [name |-> "Test", endian |-> "little",
     entries |-> <<
        Field("Field", "some_private_field", PlainT("i64"), "big", NoExpr, NoExpr, NoExpr),
        Field("Field", "some_pub_field", PlainT("u8"), "", NoExpr, NoExpr, NoExpr),
        Field("Field", "some_fancy_visibility", PlainT("u32"), "", NoExpr, NoExpr, NoExpr),
        Directive("pad", [form |-> "array", val |-> <<>>], 3),
        Field("Temp", "temporary", PlainT("f32"), "", NoExpr, Ref("move_data"), NoExpr),
        Field("Field", "move_data", PlainT("f32"), "", Ref("temporary"), NoExpr, NoExpr),
        Directive("magic", [form |-> "array", val |-> <<18, 52, 86, 120>>], 0) >>]

\* The same head, then a length-prefixed sequence:
\*   #[bin_data(encode = xs.len() as u8)] let len: u8,
\*   #[bin_data(args:decode { count = len as usize })] pub xs: Vec<u8>
EndToEnd ==
    [name |-> "EndToEnd", endian |-> "little",
     entries |-> <<
        Field("Field", "a", PlainT("i64"), "big", NoExpr, NoExpr, NoExpr),
        Field("Field", "b", PlainT("u8"), "", NoExpr, NoExpr, NoExpr),
        Field("Field", "c", PlainT("u32"), "", NoExpr, NoExpr, NoExpr),
        Directive("pad", [form |-> "array", val |-> <<>>], 3),
        Field("Temp", "len", PlainT("u8"), "", NoExpr, LenOf("xs"), NoExpr),
        Field("Field", "xs", VecT("u8"), "", NoExpr, NoExpr, Ref("len")) >>]

\* A sequence of a fixed count in a record that inherits its endian:
\*   #[bin_data(args:decode { count = 2 })] pub xs: Vec<u16>
Pair ==
    [name |-> "Pair", endian |-> "inherit",
     entries |-> <<
        Field("Field", "xs", VecT("u16"), "", NoExpr, NoExpr, Lit(<<2>>)) >>]

\* A length-prefixed text:
\*   #[bin_data(encode = s.len() as u8)] let n: u8,
\*   #[bin_data(args:decode { count = n as usize })] pub s: String
Text ==
    [name |-> "Text", endian |-> "big",
     entries |-> <<
        Field("Temp", "n", PlainT("u8"), "", NoExpr, LenOf("s"), NoExpr),
        Field("Field", "s", StringT, "", NoExpr, NoExpr, Ref("n")) >>]

\* A version byte that decode reads and drops and encode writes as 1:
\*   @magic(Be(0x1234_u16)), #[bin_data(encode = 1)] let version: u8,
\*   #[bin_data(endian = "little")] pub x: u16
Versioned ==
    [name |-> "Versioned", endian |-> "none",
     entries |-> <<
        Directive("magic", [form |-> "Be", val |-> <<18, 52>>], 0),
        Field("Temp", "version", PlainT("u8"), "little", NoExpr, Lit(<<1>>), NoExpr),
        Field("Field", "x", PlainT("u16"), "little", NoExpr, NoExpr, NoExpr) >>]

\* Every kind of local endian in a record that inherits its endian:
\*   #[bin_data(endian = "inherit")] x: u16, u: (),
\*   #[bin_data(endian = "none", args:decode { count = 1 })] s: String,
\*   #[bin_data(endian = "big")] y: u16, #[bin_data(endian = "little")] z: u16
Scoped ==
    [name |-> "Scoped", endian |-> "inherit",
     entries |-> <<
        Field("Field", "x", PlainT("u16"), "inherit", NoExpr, NoExpr, NoExpr),
        Field("Field", "u", UnitT, "", NoExpr, NoExpr, NoExpr),
        Field("Field", "s", StringT, "none", NoExpr, NoExpr, Lit(<<1>>)),
        Field("Field", "y", PlainT("u16"), "big", NoExpr, NoExpr, NoExpr),
        Field("Field", "z", PlainT("u16"), "little", NoExpr, NoExpr, NoExpr) >>]

\* tests/vec_slice_view.rs: a sequence of pairs written as a length, the
\* first components and the second components:
\*   #[bin_data(encode = values.len() as u32)] let length: u32,
\*   #[bin_data(args:decode { count = length as usize, arg = Endian::Little })]
\*   #[bin_data(args:encode { arg = Endian::Little })]
\*   #[bin_data(encode = SliceView::new(values, |&(x, _)| x))] let xs: Vec<u8>,
\*   (the same, with |&(_, y)| y) let ys: Vec<u16>,
\*   #[bin_data(decode = std::iter::zip(xs, ys).collect())]
\*   pub values: Box<[(u8, u16)]>
\* (Endian::Little as an element argument is its discriminant, 0.)
SliceViewTest ==
    [name |-> "SliceViewTest", endian |-> "little",
     entries |-> <<
        Field("Temp", "length", PlainT("u32"), "", NoExpr, LenOf("values"), NoExpr),
        WithArg(Field("Temp", "xs", VecT("u8"), "", NoExpr,
                      ViewOf("SliceView", "values", 1), Ref("length")), Lit(<<0>>)),
        WithArg(Field("Temp", "ys", VecT("u16"), "", NoExpr,
                      ViewOf("SliceView", "values", 2), Ref("length")), Lit(<<0>>)),
        Field("Field", "values", PairsT, "", Zip("xs", "ys"), NoExpr, NoExpr) >>]

\* A persistent field with an encode override:
\*   #[bin_data(encode = 1)] pub version: u8, pub x: u16
Stamped ==
    [name |-> "Stamped", endian |-> "big",
     entries |-> <<
        Field("Field", "version", PlainT("u8"), "", NoExpr, Lit(<<1>>), NoExpr),
        Field("Field", "x", PlainT("u16"), "", NoExpr, NoExpr, NoExpr) >>]

Records == {Test, EndToEnd, Pair, Text, Versioned, Scoped, SliceViewTest, Stamped}

\* 0x1122334455667788_i64, 42_u8, 0xDEADBEEF_u32
HeadFields == ("a" :> <<17, 34, 51, 68, 85, 102, 119, 136>>) @@ ("b" :> <<42>>)
        @@ ("c" :> <<222, 173, 190, 239>>)

\* The values encoded, by record type.
Selves(r) ==
    CASE r.name = "Test" ->
           {("some_private_field" :> <<17, 34, 51, 68, 85, 102, 119, 136>>)
            @@ ("some_pub_field" :> <<42>>)
            @@ ("some_fancy_visibility" :> <<222, 173, 190, 239>>)
            @@ ("move_data" :> f) : f \in {<<64, 73, 15, 219>>, <<0, 0, 0, 1>>}}
      [] r.name = "EndToEnd" ->
           {HeadFields @@ ("xs" :> xs) : xs \in {<<>>, <<<<7>>>>, <<<<1>>, <<2>>, <<3>>>>}}
      [] r.name = "Pair" ->
           {("xs" :> xs) : xs \in {<<>>, <<<<18, 52>>>>, <<<<18, 52>>, <<0, 1>>>>,
                                   <<<<18, 52>>, <<0, 1>>, <<255, 0>>>>}}
      [] r.name = "Text" -> {("s" :> s) : s \in Strings}
      [] r.name = "Versioned" -> {("x" :> x) : x \in {<<18, 52>>, <<0, 0>>}}
      [] r.name = "Scoped" ->
           {("x" :> <<18, 52>>) @@ ("u" :> <<>>) @@ ("s" :> <<97>>)
            @@ ("y" :> <<0, 1>>) @@ ("z" :> z) : z \in {<<18, 52>>, <<255, 0>>}}
      [] r.name = "Stamped" ->
           {("version" :> v) @@ ("x" :> <<18, 52>>) : v \in {<<1>>, <<2>>}}
      [] r.name = "SliceViewTest" ->
           {("values" :> v) : v \in {<<>>, <<<<<<7>>, <<1, 2>>>>>>,
                                      <<<<<<1>>, <<0, 10>>>>, <<<<2>>, <<0, 20>>>>,
                                        <<<<3>>, <<0, 30>>>>>>}}

\* 11 22 33 44 55 66 77 88 | 2A | EF BE AD DE
HeadBytes == <<17, 34, 51, 68, 85, 102, 119, 136, 42, 239, 190, 173, 222>>

\* The byte sequences decoded, by record type: well-formed ones (with zero
\* and nonzero padding, with and without bytes after the record), and ones
\* cut short, of a wrong magic, of a count the source cannot serve, of
\* malformed text.
Inputs(r) ==
    CASE r.name = "Test" ->
           {HeadBytes \o p \o t : p \in {<<10, 20, 30>>, <<0, 0, 0>>},
                                  t \in {<<219, 15, 73, 64, 18, 52, 86, 120>>,
                                         <<219, 15, 73, 64, 18, 52, 86, 121>>,
                                         <<219, 15, 73, 64, 18, 52>>}}
      [] r.name = "EndToEnd" ->
           {HeadBytes \o p \o t : p \in {<<10, 20, 30>>, <<0, 0, 0>>},
                                  t \in {<<3, 1, 2, 3>>, <<0>>, <<1, 7, 9>>, <<2, 1>>, <<>>}}
           \cup {<<17, 34, 51>>}
      [] r.name = "Pair" ->
           {<<18, 52, 0, 1>>, <<18, 52, 0>>, <<18, 52, 0, 1, 5>>, <<>>}
      [] r.name = "Text" ->
           {<<1, 97>>, <<2, 195, 130>>, <<1, 195>>, <<2, 97>>, <<0>>, <<3, 97, 195, 130, 97>>}
      [] r.name = "Versioned" ->
           {<<18, 52, 1, 18, 52>>, <<18, 52, 2, 18, 52>>, <<52, 18, 1, 18, 52>>,
            <<18, 52, 1, 18>>}
      [] r.name = "Scoped" ->
           {<<18, 52, 97, 0, 1, 18, 52>>, <<18, 52, 195, 0, 1, 18, 52>>, <<18, 52, 97, 0>>}
      [] r.name = "Stamped" -> {<<1, 18, 52>>, <<2, 18, 52>>, <<1, 18>>}
      [] r.name = "SliceViewTest" ->
           {<<3, 0, 0, 0, 1, 2, 3, 10, 0, 20, 0, 30, 0>>, <<0, 0, 0, 0>>,
            <<1, 0, 0, 0, 7, 2, 1, 9>>, <<2, 0, 0, 0, 1, 2, 10, 0, 20>>,
            <<2, 0, 0, 0, 1>>, <<3, 0>>, <<0, 1, 0, 0, 1, 2, 3>>}

-----------------------------------------------------------------------------
(* The generated procedures, run entry by entry.  A flow runs two          *)
(* procedures on one record type: "ED" encodes a value and decodes the     *)
(* bytes written, "DE" decodes an input and encodes the record decoded.    *)

Op(s, entry, op, e, at, len) ==
    [stage |-> s, entry |-> entry, op |-> op, endian |-> e, at |-> at, len |-> len]

OpName(entry) ==
    IF entry.e = "Directive" THEN entry.directive
    ELSE IF entry.decode.x # "none" THEN "let" ELSE "field"

Init ==
    /\ NoMacro
    /\ last = Nothing /\ builder = NoBuilder /\ calls = <<>> /\ given = <<>>
    /\ result = NoOutcome /\ writer = <<>>
    /\ bound = Empty /\ bound1 = Empty /\ trace = <<>> /\ stage = 1
    /\ record \in Records
    /\ scope \in endian_input(record.endian)
    /\ \/ /\ flow = "ED" /\ dir = "Write" /\ pc = "encode" /\ idx = 0
          /\ self \in Selves(record)
          /\ input = <<>> /\ reader = <<>>
       \/ /\ flow = "DE" /\ dir = "Read" /\ pc = "decode" /\ idx = 1
          /\ input \in Inputs(record)
          /\ reader = input /\ self = Empty

\* An error of the statement of entry idx dropped, the next entry run.
DecodeEntry_resume ==
    /\ pc = "decode" /\ idx <= Len(record.entries)
    /\ \E lost \in Lost(reader) :
         LET entry == record.entries[idx]
             d == decode_entry(record.endian, entry,
                               endian_overwrite(record.endian, scope), bound, reader, lost)
         IN /\ reader' = d.reader
            /\ bound' = d.bound
            /\ trace' = Append(trace, Op(stage, idx, OpName(entry), d.endian,
                                         Len(input) - Len(reader), Len(reader) - Len(d.reader)))
            /\ idx' = idx + 1 /\ pc' = pc /\ result' = result
    /\ UNCHANGED <<writer, dir, streamVars, macroVars, record, scope, flow, stage, bound1, self, input>>

\* decode_with: the statement of entry idx; an error returns at once (?).
DecodeEntry ==
    /\ pc = "decode" /\ idx <= Len(record.entries)
    /\ \E lost \in Lost(reader) :
         LET entry == record.entries[idx]
             d == decode_entry(record.endian, entry,
                               endian_overwrite(record.endian, scope), bound, reader, lost)
         IN /\ reader' = d.reader
            /\ bound' = d.bound
            /\ trace' = Append(trace, Op(stage, idx, OpName(entry), d.endian,
                                         Len(input) - Len(reader), Len(reader) - Len(d.reader)))
            /\ IF d.res.kind = "Ok"
               THEN idx' = idx + 1 /\ pc' = pc /\ result' = result
               ELSE idx' = idx /\ pc' = "return" /\ result' = d.res
    /\ UNCHANGED <<writer, dir, streamVars, macroVars, record, scope, flow, stage, bound1, self, input>>

\* decode_with: Ok(Self { fields }) after the last entry.
DecodeReturn ==
    /\ pc = "decode" /\ idx > Len(record.entries)
    /\ result' = Ok(SelfOf(record, bound))
    /\ pc' = "return"
    /\ UNCHANGED <<reader, writer, dir, streamVars, macroVars, record, scope, flow, stage, idx,
                   bound, bound1, self, input, trace>>

\* encode_with: `let Self { fields } = self;` and the temporaries.
EncodeBegin ==
    /\ pc = "encode" /\ idx = 0
    /\ bound' = temps(record, 1, self)
    /\ idx' = 1
    /\ UNCHANGED <<reader, writer, dir, result, streamVars, macroVars, record, scope, flow, stage,
                   pc, bound1, self, input, trace>>

\* encode_with: the statement of the idx-th encoded entry.
EncodeEntry ==
    /\ pc = "encode" /\ idx >= 1 /\ idx <= Len(entries(record))
    /\ LET at == entries(record)[idx]
           entry == record.entries[at]
           d == encode_entry(record.endian, entry,
                             endian_overwrite(record.endian, scope), bound, writer)
       IN /\ writer' = d.writer
          /\ trace' = Append(trace, Op(stage, at, OpName(entry), d.endian,
                                       Len(writer), Len(d.writer) - Len(writer)))
          /\ IF d.res.kind = "Ok"
             THEN idx' = idx + 1 /\ pc' = pc /\ result' = result
             ELSE idx' = idx /\ pc' = "return" /\ result' = d.res
    /\ UNCHANGED <<reader, dir, streamVars, macroVars, record, scope, flow, stage, bound, bound1,
                   self, input>>

\* encode_with: Ok(()) after the last entry.
EncodeReturn ==
    /\ pc = "encode" /\ idx > Len(entries(record))
    /\ result' = Ok(<<>>)
    /\ pc' = "return"
    /\ UNCHANGED <<reader, writer, dir, streamVars, macroVars, record, scope, flow, stage, idx,
                   bound, bound1, self, input, trace>>

\* The second procedure of the flow, once the first returned Ok: decode the
\* bytes written from their start, or encode the record decoded to an
\* empty sink.
Turn ==
    /\ pc = "return" /\ stage = 1 /\ result.kind = "Ok"
    /\ stage' = 2
    /\ bound1' = bound /\ bound' = Empty
    /\ result' = NoOutcome
    /\ IF flow = "ED"
       THEN /\ dir' = "Read" /\ pc' = "decode" /\ idx' = 1
            /\ input' = writer /\ reader' = writer
            /\ UNCHANGED <<writer, self>>
       ELSE /\ dir' = "Write" /\ pc' = "encode" /\ idx' = 0
            /\ self' = result.value /\ writer' = <<>>
            /\ UNCHANGED <<reader, input>>
    /\ UNCHANGED <<streamVars, macroVars, record, scope, flow, trace>>

Next ==
    \/ DecodeEntry
    \/ DecodeReturn
    \/ EncodeBegin
    \/ EncodeEntry
    \/ EncodeReturn
    \/ Turn

Spec == Init /\ [][Next]_vars

-----------------------------------------------------------------------------
(* The macro bin_data! and the compilation of its expansion.  A            *)
(* declaration is the attributes of the record and its entries, each field *)
(* with its own attributes in written order.                               *)

\* KnownAttribute::Endian, ::Encode, ::Decode, ::ArgsAssign, ::ArgsDecl
Attribute(attr, value, expr, direction, assigned) ==
    [attr |-> attr, value |-> value, expr |-> expr, direction |-> direction,
     fields |-> assigned]

AttrEndian(value) == Attribute("endian", value, NoExpr, "", <<>>)

AttrEncode(expr) == Attribute("encode", "", expr, "", <<>>)

AttrDecode(expr) == Attribute("decode", "", expr, "", <<>>)

AttrArgsAssign(direction, assigned) == Attribute("args", "", NoExpr, direction, assigned)

\* ArgFieldAssign: name = value
ArgFieldAssign(name, value) == [name |-> name, value |-> value]

\* ArgFieldDecl: name: type
ArgFieldDecl(name, type) == [name |-> name, type |-> type, default_value |-> NoExpr]

\* The content of an args attribute parses as assignments / as declarations.
IsAssign(assigned) == \A k \in 1..Len(assigned) : "value" \in DOMAIN assigned[k]

IsDecl(assigned) == \A k \in 1..Len(assigned) : "type" \in DOMAIN assigned[k]

\* An args attribute read as a declaration wherever it stands.
KnownAttribute_new_decl(attr, field) ==
    CASE attr.attr \in {"endian", "encode", "decode"} ->
           [ok |-> TRUE, known |-> attr, error |-> ""]
      [] attr.attr = "args" ->
           [ok |-> TRUE, known |-> [attr EXCEPT !.attr = "args_decl"], error |-> ""]
      [] OTHER -> [ok |-> FALSE, known |-> attr, error |-> "unknown attribute for bin_data"]

\* KnownAttribute::new: a bin_data attribute parsed; args is an ArgsAssign
\* at a field and an ArgsDecl ("args_decl") at the record.
KnownAttribute_new(attr, field) ==
    CASE attr.attr \in {"endian", "encode", "decode"} ->
           [ok |-> TRUE, known |-> attr, error |-> ""]
      [] attr.attr = "args" /\ field ->
           IF IsAssign(attr.fields) THEN [ok |-> TRUE, known |-> attr, error |-> ""]
           ELSE [ok |-> FALSE, known |-> attr, error |-> "expected ="]
      [] attr.attr = "args" ->
           IF IsDecl(attr.fields)
           THEN [ok |-> TRUE, known |-> [attr EXCEPT !.attr = "args_decl"], error |-> ""]
           ELSE [ok |-> FALSE, known |-> attr, error |-> "expected :"]
      [] OTHER -> [ok |-> FALSE, known |-> attr, error |-> "unknown attribute for bin_data"]

\* The attributes of one scope parsed: the known attributes, and the errors
\* of those that do not parse.
partition_attrs(attrs, field) ==
    [known |-> [k \in 1..Len(attrs) |-> KnownAttribute_new(attrs[k], field).known],
     errors |-> [k \in 1..Len(SelectSeq(attrs, LAMBDA a : ~KnownAttribute_new(a, field).ok))
                   |-> KnownAttribute_new(
                           SelectSeq(attrs, LAMBDA a : ~KnownAttribute_new(a, field).ok)[k],
                           field).error]]

\* A string literal, as in encode = "u32 expected"
Str(val) == [x |-> "str", name |-> "", val |-> val]

\* `&name`
Borrow(name) == [x |-> "borrow", name |-> name, val |-> <<>>]

\* `name.as_slice()`
Slice(name) == [x |-> "slice", name |-> name, val |-> <<>>]

\* Box<[T]>
BoxSliceT(elem) == [k |-> "BoxSlice", name |-> "Box<[T]>", elem |-> elem]

\* Field as declared: kind, name, type and attributes
FieldDecl(kind, name, type, attrs) ==
    [e |-> "Field", directive |-> "", magic |-> [form |-> "array", val |-> <<>>], n |-> 0,
     kind |-> kind, name |-> name, type |-> type, attrs |-> attrs]

\* Directive as declared
DirectiveDecl(directive, m, n) ==
    [e |-> "Directive", directive |-> directive, magic |-> m, n |-> n,
     kind |-> "", name |-> "", type |-> UnitT, attrs |-> <<>>]

\* Input: the declaration of a record
Input(name, attrs, declared) == [name |-> name, attrs |-> attrs, entries |-> declared]

\* impl Parse for Input / Field: the declaration with the attributes of the
\* record and of every field parsed, or the first error.
Input_parse(input_decl) ==
    LET own == partition_attrs(input_decl.attrs, FALSE)
        of(i) == partition_attrs(input_decl.entries[i].attrs, TRUE)
        errors == own.errors
                  \o Flatten([i \in 1..Len(input_decl.entries) |-> of(i).errors])
    IN [ok |-> errors = <<>>,
        error |-> IF errors = <<>> THEN "" ELSE errors[1],
        input |-> [name |-> input_decl.name, attrs |-> own.known,
                   entries |-> [i \in 1..Len(input_decl.entries) |->
                                  [input_decl.entries[i] EXCEPT !.attrs = of(i).known]]]]


\* Config::default()
Config_default == [args_decl |-> <<>>, args_assign |-> <<>>, calculate |-> NoExpr]

\* ExtractedArgs::default(): no endian (""), no overrides, no error
ExtractedArgs_default ==
    [endian |-> "", encode |-> Config_default, decode |-> Config_default, errors |-> <<>>]

\* Direction::dispatch applied to a list of one Config each for encode and decode
dispatch(direction, args, slot, added) ==
    LET enc == IF direction \in {"encode", ""}
               THEN [args.encode EXCEPT ![slot] = @ \o added] ELSE args.encode
        dec == IF direction \in {"decode", ""}
               THEN [args.decode EXCEPT ![slot] = @ \o added] ELSE args.decode
    IN [args EXCEPT !.encode = enc, !.decode = dec]

\* extract_args, one attribute: the set! macro keeps the first value of an
\* option and records an error for each further one (messages are written
\* without their backquotes).
extract_one(args, a) ==
    CASE a.attr = "endian" ->
           IF args.endian = "" THEN [args EXCEPT !.endian = a.value]
           ELSE [args EXCEPT !.errors = Append(@, "duplicated option endian")]
      [] a.attr = "encode" ->
           IF args.encode.calculate = NoExpr THEN [args EXCEPT !.encode.calculate = a.expr]
           ELSE [args EXCEPT !.errors = Append(@, "duplicated option encode")]
      [] a.attr = "decode" ->
           IF args.decode.calculate = NoExpr THEN [args EXCEPT !.decode.calculate = a.expr]
           ELSE [args EXCEPT !.errors = Append(@, "duplicated option decode")]
      [] a.attr = "args" -> dispatch(a.direction, args, "args_assign", a.fields)
      [] a.attr = "args_decl" -> dispatch(a.direction, args, "args_decl", a.fields)

RECURSIVE extract_from(_, _)
extract_from(args, known_attrs) ==
    IF known_attrs = <<>> THEN args
    ELSE extract_from(extract_one(args, Head(known_attrs)), Tail(known_attrs))

\* fn extract_args
extract_args(known_attrs) == extract_from(ExtractedArgs_default, known_attrs)

\* A statement of a generated procedure.
Stmt(stmt, name, type, e, setters, expr) ==
    [stmt |-> stmt, name |-> name, type |-> type, endian |-> e, setters |-> setters,
     expr |-> expr]

\* Config::arg_setters: one setter call per argument assignment, in order.
arg_setters(config) == config.args_assign

\* Config::arg_setters: assert!(self.args_decl.is_empty())
arg_setters_assert(config) == config.args_decl = <<>>

\* fn decode_entry: the statement it generates for one declared entry, the
\* options (an Option<ExtractedArgs>) of a field unwrapped.
decode_entry_tokens(global_endian, entry, args) ==
    IF entry.e = "Directive"
    THEN Stmt("directive", entry.directive, UnitT, "", <<>>, NoExpr)
    ELSE IF args.val.decode.calculate # NoExpr
    THEN Stmt("let", entry.name, entry.type, "", <<>>, args.val.decode.calculate)
    ELSE Stmt("decode_with", entry.name, entry.type,
              decide_endian(args.val.endian, global_endian),
              arg_setters(args.val.decode), NoExpr)

\* fn decode_entry: the panic of its unwrap or of the assertion of
\* arg_setters, "" when neither fires.
decode_entry_panic(entry, args) ==
    IF entry.e = "Directive" THEN ""
    ELSE IF ~args.some THEN "called Option::unwrap() on a None value"
    ELSE IF ~arg_setters_assert(args.val.decode)
    THEN "assertion failed: self.args_decl.is_empty()"
    ELSE ""

\* fn extract_struct: the struct with the persistent fields.
extract_struct(input_decl) ==
    {input_decl.entries[i].name :
        i \in {j \in 1..Len(input_decl.entries) : input_decl.entries[j].kind = "Field"}}

\* fn impl_decode: the Context<dir::Read> and Decode implementations.
impl_decode(input_decl, args, field_args) ==
    LET global_endian == IF args.endian = "" THEN "none" ELSE args.endian
        n == Len(input_decl.entries)
        panics == IF Len(field_args) # n
                  THEN <<".zip_eq() reached end of one iterator before the other">>
                  ELSE SelectSeq([i \in 1..n |->
                                    decode_entry_panic(input_decl.entries[i], field_args[i])],
                                 LAMBDA m : m # "")
    IN [items |-> {"Context<dir::Read>", "Decode"},
        global_endian |-> global_endian,
        panic |-> IF panics = <<>> THEN "" ELSE panics[1],
        decode_with |-> IF panics # <<>> THEN <<>>
                        ELSE [i \in 1..n |->
                                decode_entry_tokens(global_endian, input_decl.entries[i],
                                                    field_args[i])]]

\* fn impl_encode, its temporaries: each temporary bound to its encode
\* override, or a compile error where it has none.  bin_data does not call
\* impl_encode.
impl_encode_temps(input_decl, field_args) ==
    LET all == [i \in 1..Len(input_decl.entries) |-> i]
        at == SelectSeq(all, LAMBDA i : input_decl.entries[i].kind = "Temp")
    IN [k \in 1..Len(at) |->
          LET entry == input_decl.entries[at[k]]
              arg == field_args[at[k]].val
          IN IF arg.encode.calculate # NoExpr
             THEN Stmt("assert_is_view", entry.name, entry.type, "", <<>>, arg.encode.calculate)
             ELSE Stmt("compile_error", "temporary field requires an encode attribute",
                       entry.type, "", <<>>, NoExpr)]

\* bin_data, field_args: None for a directive, the extracted options of a field.
field_args(input_decl) ==
    [i \in 1..Len(input_decl.entries) |->
       IF input_decl.entries[i].e = "Directive" THEN None
       ELSE Some(extract_args(input_decl.entries[i].attrs))]

\* The proc macro bin_data: the struct and what impl_decode generates.  The
\* errors extract_args collected are not part of the result.
\* A declaration that does not parse expands to its error, a panic of the
\* macro leaves no expansion but the panic.
bin_data(input_decl) ==
    LET parsed == Input_parse(input_decl)
        args == extract_args(parsed.input.attrs)
        decode == impl_decode(parsed.input, args, field_args(parsed.input))
    IN IF ~parsed.ok
       THEN [items |-> {}, fields |-> {}, global_endian |-> "none", decode_with |-> <<>>,
             compile_errors |-> <<parsed.error>>, field_args |-> <<>>, panic |-> ""]
       ELSE IF decode.panic # ""
       THEN [items |-> {}, fields |-> {}, global_endian |-> "none", decode_with |-> <<>>,
             compile_errors |-> <<>>, field_args |-> field_args(parsed.input),
             panic |-> decode.panic]
       ELSE [items |-> {"struct"} \cup decode.items,
             fields |-> extract_struct(parsed.input),
             global_endian |-> decode.global_endian,
             decode_with |-> decode.decode_with,
             compile_errors |-> <<>>,
             field_args |-> field_args(parsed.input),
             panic |-> ""]

-----------------------------------------------------------------------------
(* What the compiler makes of an expansion: the diagnostics of its         *)
(* statements, in order.                                                   *)

\* NoArgs: the builder of a type without arguments
NoArgs == [type |-> "NoArgs", state |-> ProvidedArgs(Iter(<<>>))]

\* Context<dir::Read>::args_builder of a type (a wrapper has the builder of
\* the type it wraps)
args_builder(t) ==
    LET u == IF t.k \in {"Le", "Be"} THEN ElemT(t.elem) ELSE t
    IN CASE u.k \in {"Vec", "BoxSlice"} -> VecArgsBuilder_default
         [] u.k = "String" -> StrArgsBuilder_default
         [] OTHER -> NoArgs

\* The type of an expression: how it holds its value (form) and of what type.
ExprT(form, of) == [form |-> form, of |-> of]

\* The type of `endian` where the entries of a procedure run.
EndianInScope(global_endian) ==
    IF endian_overwrite(global_endian, "arg") # "arg" THEN "Endian"
    ELSE IF endian_input(global_endian) = {"NoEndian"} THEN "NoEndian" ELSE "Endian"

\* The type of the expression decide_endian generated, where a value of
\* type `expected` is wanted: into_context returns whichever is wanted.
EndianExprType(expression, global_endian, expected) ==
    CASE expression = "endian.into_context()" -> expected
      [] expression = "NoEndian" -> "NoEndian"
      [] expression \in {"Endian::Little", "Endian::Big"} -> "Endian"
      [] expression = "endian" -> EndianInScope(global_endian)

\* The diagnostics named in the documentation of the context module.
MismatchedEndian(expected, found) ==
    IF expected = "Endian"
    THEN "expected enum Endian, found struct NoEndian"
    ELSE "expected struct NoEndian, found enum Endian"

\* The type of an expression where the names of env are bound.
TypeOfExpr(expr, env) ==
    CASE expr.x \in {"ref", "borrow", "slice", "zip"} /\ expr.name \notin DOMAIN env ->
           ExprT("unbound", UnitT)
      [] expr.x = "ref" -> ExprT("own", env[expr.name])
      [] expr.x = "borrow" -> ExprT("ref", env[expr.name])
      [] expr.x = "slice" -> ExprT("slice", env[expr.name])
      [] expr.x \in {"lit", "len"} -> ExprT("int", UnitT)
      [] expr.x = "str" -> ExprT("str", UnitT)
      [] expr.x = "zip" -> ExprT("own", PairsT)
      [] expr.x \in {"SliceView", "SliceViewRef"} ->
           ExprT(expr.x, PlainT(IF expr.val[1] = 1 THEN "u8" ELSE "u16"))
      [] OTHER -> ExprT("unbound", UnitT)

\* U: View<T>, for the type u of an expression and a declared type t
View(u, t) ==
    \/ u.form = "own" /\ u.of = t
    \/ u.form = "int" /\ t.k = "plain"
    \/ u.form = "ref" /\ u.of = t
    \/ u.form = "slice" /\ t.k = "BoxSlice" /\ u.of.elem = t.elem
    \/ u.form = "slice" /\ t.k = "Vec" /\ u.of.elem = t.elem
    \/ u.form \in {"SliceView", "SliceViewRef"} /\ t.k \in {"Vec", "BoxSlice"}
                                                /\ u.of.name = t.elem

\* The builder after the setter calls, and the diagnostics of the calls.
RECURSIVE apply_setters(_, _, _)
apply_setters(b, setters, env) ==
    IF setters = <<>> THEN [b |-> b, errors |-> <<>>]
    ELSE LET s == Head(setters)
             unbound == IF TypeOfExpr(s.value, env).form = "unbound"
                        THEN <<"cannot find value in this scope">> ELSE <<>>
             can == CASE s.name = "count" -> b.type # "NoArgs" /\ CanCount(b)
                      [] s.name = "arg" -> CanArg(b)
                      [] OTHER -> FALSE
             after == IF ~can THEN b
                      ELSE IF s.name = "arg" THEN VecArgsBuilder_arg(b, 0)
                      ELSE IF b.type = "Vec" THEN VecArgsBuilder_count(b, 0)
                      ELSE StrArgsBuilder_count(b, 0)
             rest == apply_setters(after, Tail(setters), env)
         IN [b |-> rest.b,
             errors |-> unbound
                        \o (IF can THEN <<>> ELSE <<"no method named " \o s.name \o " found">>)
                        \o rest.errors]

\* The diagnostics of one statement.
check_stmt(s, env, global_endian) ==
    CASE s.stmt = "directive" -> <<>>
      [] s.stmt = "compile_error" -> <<s.name>>
      [] s.stmt = "let" ->
           LET u == TypeOfExpr(s.expr, env)
           IN IF u.form = "unbound" THEN <<"cannot find value in this scope">>
              ELSE IF (u.form = "own" /\ u.of = s.type) \/ (u.form = "int" /\ s.type.k = "plain")
              THEN <<>> ELSE <<"mismatched types">>
      [] s.stmt = "assert_is_view" ->
           LET u == TypeOfExpr(s.expr, env)
           IN IF u.form = "unbound" THEN <<"cannot find value in this scope">>
              ELSE IF View(u, s.type) THEN <<>>
              ELSE <<"the trait bound View is not satisfied">>
      [] s.stmt = "decode_with" ->
           LET expected == EndianContext(s.type)
               found == EndianExprType(s.endian, global_endian, expected)
               built == apply_setters(args_builder(s.type), s.setters, env)
           IN (IF found = expected THEN <<>> ELSE <<MismatchedEndian(expected, found)>>)
              \o built.errors
              \o (IF built.b.type = "NoArgs" \/ CanFinish(built.b) THEN <<>>
                  ELSE <<"the trait ArgsBuilderFinished is not implemented">>)

RECURSIVE check_from(_, _, _, _)
check_from(stmts, i, env, global_endian) ==
    IF i > Len(stmts) THEN <<>>
    ELSE LET s == stmts[i]
             env1 == IF s.stmt \in {"let", "decode_with", "assert_is_view"}
                     THEN Bind(env, s.name, s.type) ELSE env
         IN check_stmt(s, env, global_endian) \o check_from(stmts, i + 1, env1, global_endian)

\* The compiler's verdict on an expansion.
Compiler(exp) ==
    LET errors == exp.compile_errors
                  \o (IF exp.panic = "" THEN <<>> ELSE <<"proc macro panicked">>)
                  \o check_from(exp.decode_with, 1, Empty, exp.global_endian)
    IN [verdict |-> IF errors = <<>> THEN "accepted" ELSE "rejected", errors |-> errors]

-----------------------------------------------------------------------------
(* Declarations handed to the macro.                                       *)

\* The endian attributes of one scope: none, one of each value, or two.
EndianAttrs ==
    {<<>>, <<AttrEndian("none")>>, <<AttrEndian("little")>>, <<AttrEndian("big")>>,
     <<AttrEndian("inherit")>>, <<AttrEndian("little"), AttrEndian("big")>>}

\* The argument assignments of one field: none, a count, or a count twice.
CountAttrs ==
    {<<>>, <<AttrArgsAssign("decode", <<ArgFieldAssign("count", Lit(<<1>>))>>)>>,
     <<AttrArgsAssign("decode", <<ArgFieldAssign("count", Lit(<<1>>))>>),
       AttrArgsAssign("decode", <<ArgFieldAssign("count", Lit(<<2>>))>>)>>}

FieldTypes ==
    {PlainT("u16"), UnitT, StringT, VecT("u8"), BoxSliceT("u8"), WrapT("Le", "u16"),
     WrapT("Be", "String")}

\* A record of one persistent field.
OneField == {Input("One", ra, <<FieldDecl("Field", "x", t, ea \o ca)>>) :
               ra \in EndianAttrs, t \in FieldTypes, ea \in EndianAttrs, ca \in CountAttrs}

\* The encode overrides of a temporary of type u32: none, a value of the type,
\* a reference to it, a string literal, or two overrides.
EncodeAttrs ==
    {<<>>, <<AttrEncode(Lit(<<1>>))>>, <<AttrEncode(Borrow("field"))>>,
     <<AttrEncode(Ref("field"))>>, <<AttrEncode(Str("u32 expected"))>>,
     <<AttrEncode(Lit(<<1>>)), AttrEncode(Lit(<<2>>))>>}

\* The decode overrides of the field after the temporary.
DecodeAttrs ==
    {<<AttrDecode(Ref("temporary"))>>,
     <<AttrDecode(Ref("temporary")), AttrDecode(Lit(<<0>>))>>}

\* tests/ui/missing-encode-temporary.rs and tests/ui/encode-wrong-type.rs: a
\* temporary and the field computed from it.
WithTemporary ==
    {Input("WithTemporary", <<AttrEndian("little")>>,
           <<DirectiveDecl("magic", [form |-> "array", val |-> <<1>>], 0),
             FieldDecl("Temp", "temporary", PlainT("u32"), ea),
             FieldDecl("Field", "field", PlainT("u32"), da)>>) :
        ea \in EncodeAttrs, da \in DecodeAttrs}

\* The encode overrides of a temporary of type Vec<u8> or Box<[u8]>.
ViewAttrs ==
    {<<AttrEncode(Slice("ys"))>>, <<AttrEncode(ViewOf("SliceView", "ps", 1))>>,
     <<AttrEncode(ViewOf("SliceViewRef", "ps", 1))>>,
     <<AttrEncode(ViewOf("SliceView", "ps", 2))>>, <<AttrEncode(Ref("ys"))>>}

\* A temporary sequence whose encode override is a view of the fields.
WithView ==
    {Input("WithView", <<AttrEndian("big")>>,
           <<FieldDecl("Temp", "xs", t,
                       va \o <<AttrArgsAssign("decode", <<ArgFieldAssign("count", Lit(<<1>>))>>)>>),
             FieldDecl("Field", "ys", VecT("u8"),
                       <<AttrArgsAssign("decode", <<ArgFieldAssign("count", Lit(<<1>>))>>)>>),
             FieldDecl("Field", "ps", PairsT, <<AttrDecode(Zip("xs", "ys"))>>)>>) :
        t \in {VecT("u8"), BoxSliceT("u8")}, va \in ViewAttrs}

\* The args attributes of a record: none, declarations for both directions
\* or one, or (not parsing at a record) an assignment.
RecordArgs ==
    {<<>>,
     <<Attribute("args", "", NoExpr, "", <<ArgFieldDecl("n", PlainT("u32"))>>)>>,
     <<Attribute("args", "", NoExpr, "decode", <<ArgFieldDecl("n", PlainT("u32"))>>)>>,
     <<AttrEndian("big"),
       Attribute("args", "", NoExpr, "encode", <<ArgFieldDecl("n", PlainT("u32"))>>)>>,
     <<AttrArgsAssign("", <<ArgFieldAssign("n", Lit(<<1>>))>>)>>}

\* The args attributes of a field: assignments for both directions or one,
\* or (not parsing at a field) a declaration.
FieldArgs ==
    {<<AttrArgsAssign("", <<ArgFieldAssign("count", Lit(<<1>>))>>)>>,
     <<AttrArgsAssign("decode", <<ArgFieldAssign("count", Lit(<<1>>))>>)>>,
     <<AttrArgsAssign("encode", <<ArgFieldAssign("arg", Lit(<<0>>))>>)>>,
     <<Attribute("args", "", NoExpr, "decode", <<ArgFieldDecl("count", PlainT("u32"))>>)>>}

\* A record with args attributes of its own, a field with args between two
\* directives.
WithArgs ==
    {Input("WithArgs", ra,
           <<DirectiveDecl("pad", [form |-> "array", val |-> <<>>], 1),
             FieldDecl("Field", "xs", VecT("u8"), fa),
             DirectiveDecl("magic", [form |-> "array", val |-> <<1>>], 0)>>) :
        ra \in RecordArgs, fa \in FieldArgs}

Decls == OneField \cup WithTemporary \cup WithView \cup WithArgs

-----------------------------------------------------------------------------
(* Compiling a declaration: the macro expands it, the compiler checks the  *)
(* expansion.                                                              *)

InitMacro ==
    /\ NoRecord
    /\ last = Nothing /\ builder = NoBuilder /\ calls = <<>> /\ given = <<>>
    /\ result = NoOutcome /\ writer = <<>> /\ reader = <<>> /\ dir = ""
    /\ decl \in Decls
    /\ expansion = NoExpansion
    /\ rustc = NoVerdict

\* bin_data! { ... }
Expand ==
    /\ decl # NoDecl /\ expansion = NoExpansion
    /\ expansion' = bin_data(decl)
    /\ UNCHANGED <<reader, writer, dir, result, streamVars, recVars, decl, rustc>>

\* The compiler checks the expansion.
Compile ==
    /\ expansion # NoExpansion /\ rustc = NoVerdict
    /\ rustc' = Compiler(expansion)
    /\ UNCHANGED <<reader, writer, dir, result, streamVars, recVars, decl, expansion>>

NextMacro ==
    \/ Expand
    \/ Compile

SpecMacro == InitMacro /\ [][NextMacro]_vars

-----------------------------------------------------------------------------
(* Properties of the generated procedures.                                 *)

\* No field of the record type has a decode override.
NoDecodeOverride(r) == \A i \in 1..Len(r.entries) : r.entries[i].decode.x = "none"

\* Every sequence and text field of the value v holds exactly as many
\* elements as the field's decode-side count evaluates to on what encode
\* writes for v.
CountsAgree(r, v) ==
    LET b == temps(r, 1, v)
    IN \A i \in 1..Len(r.entries) :
         r.entries[i].count.x # "none" =>
            AsUsize(Value(r.entries[i].count, b, r.entries[i].type)) = Len(b[r.entries[i].name])

\* A value was encoded and the bytes written were decoded.
RoundTripDone == flow = "ED" /\ stage = 2 /\ pc = "return"

(* C1, as amended: for a record type with no decode-override fields and a  *)
(* value whose sequence and text fields each hold exactly the number of    *)
(* elements their decode-side count yields, encoding the value to an empty *)
(* sink and decoding the bytes written succeeds, yields a record equal to  *)
(* the value, and consumes exactly the bytes written.                      *)
C1_RoundTrip ==
    (RoundTripDone /\ NoDecodeOverride(record) /\ CountsAgree(record, self))
        => (result = Ok(self) /\ reader = <<>>)

\* The three-element sequence of the length-prefixed record went round.
C1_Witness ==
    /\ RoundTripDone /\ record = EndToEnd
    /\ Len(self["xs"]) = 3
    /\ result.kind = "Ok"

(* C1, as stated: for every record type with no decode-override fields and *)
(* every value of it, encoding the value and decoding the bytes written    *)
(* succeeds, yields a record equal to the value, and consumes exactly the  *)
(* bytes written.                                                          *)
C1_RoundTripEveryValue ==
    (RoundTripDone /\ NoDecodeOverride(record)) => (result = Ok(self) /\ reader = <<>>)

\* 11 22 33 44 55 66 77 88 | 2A | EF BE AD DE | 0A 14 1E | 03 01 02 03
EndToEndInput == HeadBytes \o <<10, 20, 30>> \o <<3, 1, 2, 3>>

EndToEndDecoding == record = EndToEnd /\ flow = "DE" /\ stage = 1 /\ input = EndToEndInput

(* C2: decoding 11 22 33 44 55 66 77 88 | 2A | EF BE AD DE | 0A 14 1E |    *)
(* 03 01 02 03 as the little-endian record a: i64 (local big), b: u8,      *)
(* c: u32 (inherited), pad(3), length-prefixed u8 sequence binds           *)
(* a = 0x1122334455667788, b = 42, c = 0xDEADBEEF before the padding,      *)
(* leaves 03 01 02 03 after the padding (the three bytes skipped), and     *)
(* returns the record with these fields and the sequence [1, 2, 3], the    *)
(* whole input consumed.                                                   *)
C2_EndToEndDecode ==
    EndToEndDecoding =>
        /\ (pc = "decode" /\ idx = 4) =>
              /\ reader = <<10, 20, 30, 3, 1, 2, 3>>
              /\ bound = HeadFields
        /\ (pc = "decode" /\ idx = 5) => reader = <<3, 1, 2, 3>>
        /\ pc = "return" =>
              /\ result = Ok(HeadFields @@ ("xs" :> <<<<1>>, <<2>>, <<3>>>>))
              /\ reader = <<>>

\* The decode of that input returned.
C2_Witness == EndToEndDecoding /\ pc = "return" /\ result.kind = "Ok" /\ Len(trace) = 6

\* The input positions a pad directive of the decode covered.
PadPositions ==
    {p \in 1..Len(input) :
        \E i \in 1..Len(trace) :
            /\ trace[i].stage = 1 /\ trace[i].op = "pad"
            /\ trace[i].at < p /\ p <= trace[i].at + trace[i].len}

\* The bytes written are the bytes decode consumed, position by position,
\* but zero where a pad directive read.
Reproduced ==
    /\ Len(writer) = Len(input) - Len(reader)
    /\ \A p \in 1..Len(writer) : writer[p] = IF p \in PadPositions THEN 0 ELSE input[p]

\* The elements a temporary bound on encode stands for: those of the view,
\* when its override is a view.
Seen(entry, v) ==
    IF entry.encode.x \in {"SliceView", "SliceViewRef"}
    THEN View_into_iter(v.base_slice, v.projector)
    ELSE v

\* Every temporary decode read from the source is given, by its encode
\* override, the value decode bound to it.
Rederived ==
    \A i \in 1..Len(record.entries) :
        (record.entries[i].kind = "Temp" /\ record.entries[i].decode.x = "none")
            => Seen(record.entries[i], bound[record.entries[i].name])
                   = bound1[record.entries[i].name]

\* An input was decoded and the record decoded was encoded.
ReEncodeDone == flow = "DE" /\ stage = 2 /\ pc = "return"

(* C3, as amended: when every temporary that decode read is re-derived by  *)
(* its encode override to the value decode bound to it, a successful       *)
(* re-encoding of a decoded record writes the bytes decode consumed at     *)
(* every position except those a pad directive covered, which are zero.    *)
C3_ReEncode == (ReEncodeDone /\ result.kind = "Ok" /\ Rederived) => Reproduced

\* The test record, decoded from nonzero padding, was re-encoded with zeros.
C3_Witness ==
    /\ ReEncodeDone /\ record = Test /\ result.kind = "Ok"
    /\ SubSeq(input, 14, 16) = <<10, 20, 30>>
    /\ SubSeq(writer, 14, 16) = <<0, 0, 0>>
    /\ Rederived

(* C3, as stated: re-encoding a successfully decoded record reproduces the *)
(* input bytes at every position except those covered by pad directives,   *)
(* which are zero.                                                         *)
C3_ReEncodeEveryRecord == ReEncodeDone => (result.kind = "Ok" /\ Reproduced)

\* The endian in scope for the entries of the running record: the direction
\* the record declares, or its endian argument when it inherits.
InScope ==
    CASE record.endian = "little" -> "Little"
      [] record.endian = "big" -> "Big"
      [] record.endian = "inherit" -> scope
      [] OTHER -> "NoEndian"

\* The codec of the type takes an endian (plain data and sequences of it).
TakesEndian(t) == t.k = "plain" \/ (t.k = "Vec" /\ t.elem \notin {"()", "String"})

\* The resolution of C11 as amended.
Resolved(entry) ==
    CASE entry.endian = "little" -> "Little"
      [] entry.endian = "big" -> "Big"
      [] entry.endian = "none" -> "NoEndian"
      [] entry.endian = "inherit" -> InScope
      [] OTHER -> IF record.endian # "none" /\ TakesEndian(entry.type) THEN InScope
                  ELSE "NoEndian"

\* The resolution of C11 as stated.
ResolvedAsStated(entry) ==
    CASE entry.endian = "little" -> "Little"
      [] entry.endian = "big" -> "Big"
      [] entry.endian = "none" -> "NoEndian"
      [] entry.endian = "inherit" -> InScope
      [] OTHER -> IF record.endian # "none" THEN InScope ELSE "NoEndian"

\* The codec calls made so far.
CodecOps == {i \in 1..Len(trace) : trace[i].op = "field"}

(* C11, as amended: the endian handed to a field's codec is the direction  *)
(* of a local little or big override, NotApplicable for a local none, the  *)
(* endian in scope for the record for a local inherit, and with no local   *)
(* override: in a record that declares an endian, the endian in scope when *)
(* the field's type takes an endian and NotApplicable when it takes none;  *)
(* in a record that declares none, NotApplicable.  Decode and encode of a  *)
(* field are handed the same endian.                                       *)
C11_EndianResolution ==
    /\ \A i \in CodecOps : trace[i].endian = Resolved(record.entries[trace[i].entry])
    /\ \A i, j \in CodecOps :
          trace[i].entry = trace[j].entry => trace[i].endian = trace[j].endian

\* The record with every kind of local override, decoded and re-encoded
\* under the endian argument Big: ten codec calls, the inheriting field's Big.
C11_Witness ==
    /\ record = Scoped /\ scope = "Big" /\ flow = "DE" /\ stage = 2 /\ pc = "return"
    /\ result.kind = "Ok"
    /\ Cardinality(CodecOps) = 10
    /\ \E i \in CodecOps : trace[i].stage = 2 /\ trace[i].entry = 1 /\ trace[i].endian = "Big"

(* C11, as stated: with no local override the endian handed to the codec   *)
(* is the record's endian if the record declares one, otherwise            *)
(* NotApplicable (the other cases as above).                               *)
C11_EndianResolutionAsStated ==
    /\ \A i \in CodecOps : trace[i].endian = ResolvedAsStated(record.entries[trace[i].entry])
    /\ \A i, j \in CodecOps :
          trace[i].entry = trace[j].entry => trace[i].endian = trace[j].endian

-----------------------------------------------------------------------------
(* Properties of the stream-level operations.                              *)

Num16(d) == d[1] * 256 + d[2]

IsPlainOp == last.container = "" /\ last.type \in PlainTypes

\* C4: a 16-bit value v is encoded as [v mod 256, v div 256] with
\* Endian::Little and as [v div 256, v mod 256] with Endian::Big, and two
\* bytes decoded with an endian give the value those bytes encode with it.
C4_EndianCorrectness ==
    /\ (dir = "Write" /\ last.op = "encode" /\ IsPlainOp /\ last.type = "u16") =>
          LET v == Num16(last.bytes)
          IN /\ result.kind = "Ok"
             /\ writer = last.src \o (IF last.endian = "Little"
                                      THEN <<v % 256, v \div 256>>
                                      ELSE <<v \div 256, v % 256>>)
    /\ (dir = "Read" /\ last.op = "decode" /\ IsPlainOp /\ last.type = "u16"
          /\ Len(last.src) >= 2) =>
          /\ result.kind = "Ok"
          /\ Num16(result.value) = IF last.endian = "Little"
                                   THEN last.src[1] + 256 * last.src[2]
                                   ELSE 256 * last.src[1] + last.src[2]

\* 0x1234 written little-endian is [0x34, 0x12].
C4_Witness ==
    /\ dir = "Write" /\ last.op = "encode" /\ IsPlainOp /\ last.type = "u16"
    /\ last.bytes = U16(4660) /\ last.endian = "Little"
    /\ writer = <<52, 18>>

\* C5: magic(expected) on a source holding at least len(expected) bytes
\* consumes exactly that many and succeeds iff they equal expected; otherwise
\* it fails with MagicMismatch carrying expected and the bytes read.
C5_MagicCheck ==
    (dir = "Read" /\ last.op = "magic" /\ Len(last.src) >= Len(last.bytes)) =>
        LET n == Len(last.bytes)
            got == SubSeq(last.src, 1, n)
        IN /\ reader = Drop(last.src, n)
           /\ result.kind = "Ok" <=> got = last.bytes
           /\ got # last.bytes =>
                 /\ result.kind = "MagicMismatch"
                 /\ result.expected_magic = last.bytes
                 /\ result.real_bytes = got

C5_Witness ==
    /\ dir = "Read" /\ last.op = "magic"
    /\ last.bytes = <<18, 52>> /\ last.src = <<52, 18, 97>>
    /\ result.kind = "MagicMismatch" /\ reader = <<97>>

\* C6: pad(n) on read consumes exactly n bytes and succeeds whatever they
\* hold; pad(n) on write appends exactly n zero bytes.
C6_Padding ==
    /\ (dir = "Read" /\ last.op = "pad" /\ Len(last.src) >= last.n) =>
          /\ result.kind = "Ok"
          /\ reader = Drop(last.src, last.n)
    /\ (dir = "Write" /\ last.op = "pad") =>
          /\ result.kind = "Ok"
          /\ Len(writer) = Len(last.src) + last.n
          /\ IsPrefix(last.src, writer)
          /\ \A i \in 1..last.n : writer[Len(last.src) + i] = 0

C6_Witness ==
    /\ dir = "Read" /\ last.op = "pad" /\ last.n = 3
    /\ last.src = <<18, 52, 97>> /\ reader = <<>> /\ result.kind = "Ok"

\* The bytes of one encoded element.
ElemBytes(x, endian) == IF endian = "Little" THEN Reverse(x) ELSE x

\* C7: encoding n elements with k < n arguments fails with
\* InvalidArgument(<container tag>, "not enough arguments") after exactly
\* the first k elements have been written.
C7_ArgumentExhaustion ==
    (dir = "Write" /\ last.op = "encode" /\ last.container # "" /\ ~last.args.inf
       /\ Len(last.args.items) < Len(last.elems)) =>
        LET k == Len(last.args.items)
        IN /\ result.kind = "InvalidArgument"
           /\ result.tag = last.container
           /\ result.msg = "not enough arguments"
           /\ writer = last.src \o Flatten([i \in 1..k |-> ElemBytes(last.elems[i], last.endian)])

\* Three u16 elements, two arguments: two elements written, then the failure.
C7_Witness ==
    /\ dir = "Write" /\ last.op = "encode" /\ last.container = "Vec" /\ last.type = "u16"
    /\ Len(last.elems) = 3 /\ ~last.args.inf /\ Len(last.args.items) = 2
    /\ result.kind = "InvalidArgument" /\ Len(writer) = 4

HasRequired(cs) == \E i \in 1..Len(cs) : cs[i] \in {"count", "args"}

\* C8: from the default decode-side builder, finish is callable iff the
\* required parameter (count or args; count for text) has been supplied, and
\* no decode starts from a builder whose required parameter is unset.
C8_BuilderCompleteness ==
    /\ Building => (CanFinish(builder) <=> HasRequired(calls))
    /\ builder.type = "Str" => \A i \in 1..Len(calls) : calls[i] = "count"
    /\ builder.type = "Finished" => HasRequired(calls)
    /\ (builder.type # "None" /\ ~HasRequired(calls)) => (last = Nothing /\ result = NoOutcome)

C8_Witness ==
    /\ builder.type = "Finished" /\ calls = <<"count", "arg">>
    /\ last.type = "String" /\ last.container = "Vec" /\ result.kind = "Ok"

\* Bytes the read operation performed last needs.
Needed ==
    CASE last.op = "magic" -> Len(last.bytes)
      [] last.op = "pad" -> last.n
      [] last.op = "decode" /\ last.type = "String" -> last.n
      [] last.op = "decode" /\ last.type # "String" -> size_of(last.type)

ExpectedTag ==
    CASE last.op = "magic" -> "magic"
      [] last.op = "pad" -> "padding"
      [] OTHER -> last.type

\* C9: magic, pad, a fixed-width numeric decode and a String decode on a
\* source holding fewer bytes than they need return IncompleteData with a
\* context tag and the I/O cause.
C9_IncompleteData ==
    (dir = "Read" /\ last.op \in {"magic", "pad", "decode"} /\ last.container = ""
       /\ Len(last.src) < Needed) =>
        /\ result.kind = "IncompleteData"
        /\ result.tag = ExpectedTag
        /\ result.msg = "UnexpectedEof"

C9_Witness ==
    /\ dir = "Read" /\ last.op = "decode" /\ last.type = "u32" /\ last.container = ""
    /\ Len(last.src) = 3 /\ result.kind = "IncompleteData" /\ result.tag = "u32"

IsValidUtf8(bytes) == from_utf8(bytes).ok

LongestValidPrefix(bytes) ==
    LET k == CHOOSE n \in 0..Len(bytes) :
                 /\ IsValidUtf8(SubSeq(bytes, 1, n))
                 /\ \A m \in (n + 1)..Len(bytes) : ~IsValidUtf8(SubSeq(bytes, 1, m))
    IN SubSeq(bytes, 1, k)

\* C10: String decode with count = n reads exactly n bytes; if they are not
\* valid UTF-8 it fails with DecodeUtf8Error whose valid_prefix is the longest
\* valid prefix and whose invalid_bytes is the offending span right after it,
\* no byte of that span dropped.
C10_Utf8ErrorReportsSpan ==
    (dir = "Read" /\ last.op = "decode" /\ last.type = "String" /\ last.container = ""
       /\ Len(last.src) >= last.n) =>
        LET bytes == SubSeq(last.src, 1, last.n)
        IN /\ reader = Drop(last.src, last.n)
           /\ ~IsValidUtf8(bytes) =>
                 /\ result.kind = "DecodeUtf8Error"
                 /\ result.valid_prefix = LongestValidPrefix(bytes)
                 /\ result.invalid_bytes # <<>>
                 /\ IsPrefix(result.valid_prefix \o result.invalid_bytes, bytes)

-----------------------------------------------------------------------------
(* Properties of the macro and of the compilation of its expansion.        *)

\* The value of the first endian attribute of a scope, "" where it has none.
FirstEndian(attrs) ==
    LET e == SelectSeq(attrs, LAMBDA a : a.attr = "endian")
    IN IF e = <<>> THEN "" ELSE e[1].value

\* The endian a record declares ("none" where it declares none).
DeclaredEndian == IF FirstEndian(decl.attrs) = "" THEN "none" ELSE FirstEndian(decl.attrs)

Compiled == rustc # NoVerdict

\* The declaration parses: every attribute is known where it stands.
Parsed == Input_parse(decl).ok

Rejected == rustc.verdict = "rejected"

Accepted == rustc.verdict = "accepted"

\* The entries of the declaration that are fields.
DeclFields == {i \in 1..Len(decl.entries) : decl.entries[i].e = "Field"}

HasAttr(entry, attr) == \E k \in 1..Len(entry.attrs) : entry.attrs[k].attr = attr

\* The fields decoded by the codec of their type.
CodecFields == {i \in DeclFields : ~HasAttr(decl.entries[i], "decode")}

\* What is handed to the codec of a field: a direction (Endian) or nothing
\* (NoEndian).  Without a local override in a record declaring an endian it
\* is whichever the type takes.
HandedKind(entry) ==
    LET local == FirstEndian(entry.attrs)
    IN CASE local \in {"little", "big"} -> "Endian"
         [] local = "none" -> "NoEndian"
         [] local = "inherit" -> IF DeclaredEndian = "none" THEN "NoEndian" ELSE "Endian"
         [] OTHER -> IF DeclaredEndian = "none" THEN "NoEndian" ELSE EndianContext(entry.type)

\* The resolution as the specification words it: without a local override a
\* field has the direction of the record.
HandedKindAsStated(entry) ==
    LET local == FirstEndian(entry.attrs)
    IN CASE local \in {"little", "big"} -> "Endian"
         [] local = "none" -> "NoEndian"
         [] OTHER -> IF DeclaredEndian = "none" THEN "NoEndian" ELSE "Endian"

\* C12 (amended): whenever what is handed to the codec of a field (a
\* direction for a local little or big, nothing for a local none, the
\* record's for a local inherit, and whichever the type takes where the field
\* has no local override) differs from what its type takes, the compiler
\* rejects the declaration, and where the declaration parses, so that there
\* is an expansion, with the diagnostic naming the two types.
C12_EndianMismatchRejected ==
    Compiled =>
        \A i \in CodecFields :
            LET entry == decl.entries[i]
                expected == EndianContext(entry.type)
            IN HandedKind(entry) # expected =>
                 /\ Rejected
                 /\ Parsed =>
                       \E k \in 1..Len(rustc.errors) :
                           rustc.errors[k] = MismatchedEndian(expected, HandedKind(entry))

\* A u16 field with no endian declared anywhere is rejected: Endian expected,
\* NoEndian found.
C12_Witness ==
    /\ decl = Input("One", <<>>, <<FieldDecl("Field", "x", PlainT("u16"), <<>>)>>)
    /\ Rejected
    /\ rustc.errors = <<MismatchedEndian("Endian", "NoEndian")>>

\* C12 as stated: a field without a local override resolves to the record's
\* direction, and every difference from what the type takes is rejected.
C12_EndianMismatchRejectedAsStated ==
    Compiled =>
        \A i \in CodecFields :
            HandedKindAsStated(decl.entries[i]) # EndianContext(decl.entries[i].type) => Rejected

\* A record of one persistent field of a type whose codec takes no endian,
\* declaring an endian itself.
SuperfluousCase ==
    /\ Len(decl.entries) = 1
    /\ decl.entries[1].e = "Field"
    /\ decl.entries[1].type.k \in {"unit", "String"}
    /\ DeclaredEndian \in {"little", "big", "inherit"}

\* The argument assignments of a field are what its type needs: none for (),
\* one count for a String.
ArgsInOrder(entry) ==
    LET n == Len(SelectSeq(entry.attrs, LAMBDA a : a.attr = "args"))
    IN IF entry.type.k = "String" THEN n = 1 ELSE n = 0

\* C13: for a field of a type that takes no endian (() or String), in a
\* record declaring an endian, a local override of little, big or inherit is
\* rejected by the compiler (NoEndian expected, Endian found), while a local
\* none and no local override raise no endian diagnostic and, the field's
\* arguments being in order, are accepted.
C13_SuperfluousEndian ==
    (Compiled /\ SuperfluousCase) =>
        LET entry == decl.entries[1]
            local == FirstEndian(entry.attrs)
            superfluous == "expected struct NoEndian, found enum Endian"
        IN /\ local \in {"little", "big", "inherit"} =>
                /\ Rejected
                /\ \E k \in 1..Len(rustc.errors) : rustc.errors[k] = superfluous
           /\ local \in {"", "none"} =>
                /\ \A k \in 1..Len(rustc.errors) : rustc.errors[k] # superfluous
                /\ ArgsInOrder(entry) => Accepted

\* cannot_inherit of tests/ui/superfluous-endian.rs: a () field with a local
\* inherit in a record declaring inherit is rejected.
C13_Witness ==
    /\ decl = Input("One", <<AttrEndian("inherit")>>,
                    <<FieldDecl("Field", "x", UnitT, <<AttrEndian("inherit")>>)>>)
    /\ Rejected
    /\ rustc.errors = <<"expected struct NoEndian, found enum Endian">>

\* The temporaries of the declaration.
DeclTemps == {i \in DeclFields : decl.entries[i].kind = "Temp"}

\* The first value of an option of a field, NoExpr where it has none.
FirstExpr(entry, attr) ==
    LET e == SelectSeq(entry.attrs, LAMBDA a : a.attr = attr)
    IN IF e = <<>> THEN NoExpr ELSE e[1].expr

\* C14: a declaration with a temporary that has no encode override is
\* rejected by the compiler, with the error that the temporary requires an
\* encode attribute.
C14_TemporaryNeedsEncode ==
    Compiled =>
        \A i \in DeclTemps :
            ~HasAttr(decl.entries[i], "encode") =>
                /\ Rejected
                /\ \E k \in 1..Len(rustc.errors) :
                       rustc.errors[k] = "temporary field requires an encode attribute"

\* The types of the names an encode override can mention: every field of
\* the declaration.
EncodeEnv ==
    LET names == {decl.entries[i].name : i \in DeclFields}
    IN [n \in names |-> (CHOOSE i \in DeclFields : decl.entries[i].name = n)]

\* The type of the encode override of temporary i.
OverrideType(i) ==
    TypeOfExpr(FirstExpr(decl.entries[i], "encode"),
               [n \in DOMAIN EncodeEnv |-> decl.entries[EncodeEnv[n]].type])

\* C15: a declaration with a temporary whose encode override is not a view
\* of the temporary's declared type is rejected by the compiler.
C15_ViewCompatibility ==
    Compiled =>
        \A i \in DeclTemps :
            (HasAttr(decl.entries[i], "encode") /\ ~View(OverrideType(i), decl.entries[i].type))
                => Rejected

\* Some option is attached more than once to the record or to one field.
Duplicated(attrs) ==
    \E j, k \in 1..Len(attrs) :
        j < k /\ attrs[j].attr = attrs[k].attr /\ attrs[j].direction = attrs[k].direction

HasDuplicate == Duplicated(decl.attrs) \/ \E i \in DeclFields : Duplicated(decl.entries[i].attrs)

\* C16: when an option is attached more than once to the record or to one
\* field, the expansion holds a compile error and the compiler rejects it.
C16_DuplicateOptions ==
    (Compiled /\ HasDuplicate) => (expansion.compile_errors # <<>> /\ Rejected)

\* C17: the expansion of every declaration holds the struct with the
\* persistent fields, a Decode implementation and an Encode implementation.
C17_ExpansionSurface ==
    expansion # NoExpansion =>
        /\ {"struct", "Decode", "Encode"} \subseteq expansion.items
        /\ expansion.fields = {decl.entries[i].name : i \in DeclFields \ DeclTemps}

\* A sequence was decoded last.
SeqDecodeDone == last.op = "decode" /\ last.container \in {"Vec", "Box<[T]>"}

\* The bytes element i of the sequence decoded last takes.
Width(i) ==
    CASE last.type = "String" -> last.args.items[i].v
      [] last.type = "()" -> 0
      [] OTHER -> size_of(last.type)

\* The bytes the elements before element i take.
RECURSIVE StartOf(_)
StartOf(i) == IF i <= 1 THEN 0 ELSE StartOf(i - 1) + Width(i - 1)

\* The bytes of element i in the source.
Chunk(i) == SubSeq(last.src, StartOf(i) + 1, StartOf(i) + Width(i))

\* Element i cannot be decoded: the source ends before its last byte, or its
\* bytes are not the UTF-8 of a String.
Fails(i) ==
    \/ StartOf(i) + Width(i) > Len(last.src)
    \/ last.type = "String" /\ ~IsValidUtf8(Chunk(i))

\* The value of element i.
ElemValue(i) ==
    CASE last.type = "String" -> Chunk(i)
      [] last.type = "()" -> <<>>
      [] OTHER -> IF last.endian = "Little" THEN Reverse(Chunk(i)) ELSE Chunk(i)

\* C18: decoding a Vec<T> or a Box<[T]> with k parameters decodes k
\* elements in stream order, the i-th with the i-th parameter, and leaves
\* the source right after them; when element i is the first that cannot be
\* decoded, the result is the error of decoding that element alone where it
\* starts, nothing of the elements before it is returned, and the source is
\* where that element's decode left it.
C18_SequenceDecode ==
    SeqDecodeDone =>
        LET k == Len(last.args.items)
            failing == {i \in 1..k : Fails(i)}
        IN IF failing = {}
           THEN /\ result = Ok([i \in 1..k |-> ElemValue(i)])
                /\ reader = Drop(last.src, StartOf(k + 1))
           ELSE LET i == CHOOSE j \in failing : \A m \in failing : j <= m
                    rest == Drop(last.src, StartOf(i))
                IN /\ result.kind \in {"IncompleteData", "DecodeUtf8Error"}
                   /\ result.value = <<>>
                   /\ \E lost \in Lost(rest) :
                        LET alone == Elem_decode_with(rest, ElemT(last.type), last.endian,
                                                      last.args.items[i], lost)
                        IN result = alone.res /\ reader = alone.reader

\* A Box<[u16]> of three elements decoded from three bytes: the first
\* element is decoded, the second fails, and the result is its error.
C18_Witness ==
    /\ SeqDecodeDone /\ last.container = "Box<[T]>" /\ last.type = "u16"
    /\ Len(last.args.items) = 3 /\ Len(last.src) = 3
    /\ result = IncompleteData("u16", "UnexpectedEof")

\* A view was encoded last: last.elems is its base slice, last.n the
\* component its projector takes.
ViewEncodeDone == dir = "Write" /\ last.op = "encode_view"

\* The owned sequence [p(x) for x in s]
Projected == [i \in 1..Len(last.elems) |-> last.elems[i][last.n]]

\* An outcome with its container tag left out.
Untagged(res) == [res EXCEPT !.tag = ""]

\* C19: encoding SliceView(s, p) or SliceViewRef(s, p) with the arguments A
\* writes the bytes of the projected elements in the order of the base slice
\* and succeeds, or, where A holds fewer arguments than s has elements, stops
\* after as many elements as A holds with InvalidArgument(<its own tag>, "not
\* enough arguments"): the same bytes and, up to the tag, the same outcome as
\* encoding the owned Vec of the projected elements with A.
C19_ViewEquivalence ==
    ViewEncodeDone =>
        LET owned == Seq_encode_with("Vec", last.src, last.endian, ElemT(last.type),
                                     Projected, VecArgs(last.args))
            n == Len(last.elems)
            k == IF last.args.inf \/ Len(last.args.items) >= n THEN n ELSE Len(last.args.items)
        IN /\ writer = owned.writer
           /\ Untagged(result) = Untagged(owned.res)
           /\ writer = last.src \o Flatten([i \in 1..k |-> ElemBytes(Projected[i], last.endian)])
           /\ result = IF k = n THEN Ok(<<>>)
                       ELSE InvalidArgument(last.container, "not enough arguments")

\* A SliceViewRef of three pairs projected to their u16 component, encoded
\* with two arguments: two elements written, then the failure.
C19_Witness ==
    /\ ViewEncodeDone /\ last.container = "SliceViewRef" /\ last.n = 2 /\ last.type = "u16"
    /\ Len(last.elems) = 3 /\ last.elems[1] # last.elems[2]
    /\ ~last.args.inf /\ Len(last.args.items) = 2
    /\ result = InvalidArgument("SliceViewRef", "not enough arguments")
    /\ writer = last.src \o ElemBytes(last.elems[1][2], last.endian)
                         \o ElemBytes(last.elems[2][2], last.endian)

\* The parameters a sequence builder holds after its first j setter calls.
RECURSIVE Params(_)
Params(j) ==
    IF j = 0 THEN <<>>
    ELSE LET before == Params(j - 1)
         IN CASE calls[j] = "count" -> [i \in 1..given[j] |-> Unit]
              [] calls[j] = "args" -> given[j]
              [] calls[j] = "arg" -> [i \in 1..Len(before) |-> Val(given[j])]
              [] calls[j] = "map_arg" ->
                   [i \in 1..Len(before) |-> Val(before[i].v + given[j])]

\* The builder in use is, or the builder finished was, a VecArgsBuilder.
SequenceBuilder ==
    \/ builder.type = "Vec"
    \/ builder.type = "Finished" /\ last.container \in {"Vec", "Box<[T]>"}

\* C20: count(n) yields n unit parameters, args(seq) the items of seq in
\* order, arg(a) after them as many copies of a, map_arg(f) after them f of
\* each parameter in the same order; finish hands over exactly these; and
\* arg is called only where every parameter is the unit.
C20_ParameterSequences ==
    (SequenceBuilder /\ calls # <<>>) =>
        /\ builder.type = "Vec" =>
              builder.state.element_args = Iter(Params(Len(calls)))
        /\ builder.type = "Finished" => last.args = Iter(Params(Len(calls)))
        /\ \A j \in 1..Len(calls) :
              calls[j] = "arg" =>
                  /\ j > 1
                  /\ \A i \in 1..Len(Params(j - 1)) : Params(j - 1)[i] = Unit

\* count(2).arg(a).map_arg(|x| x + 1).finish(): two copies of a + 1.
C20_Witness ==
    /\ builder.type = "Finished" /\ last.container = "Vec"
    /\ calls = <<"count", "arg", "map_arg">>
    /\ given[1] = 2
    /\ last.args.items = <<Val(given[2] + 1), Val(given[2] + 1)>>

\* A wrapped value was encoded (decoded) last: last.container is the
\* wrapper, last.type the wrapped type, last.endian what the wrapper was
\* handed from outside.
WrappedEncodeDone == dir = "Write" /\ last.op = "encode_wrapped"

WrappedDecodeDone == dir = "Read" /\ last.op = "decode_wrapped"

\* The byte order a wrapper stands for.
FixedEndian == IF last.container = "Le" THEN "Little" ELSE "Big"

\* C21: encoding Le(v) appends the bytes encoding v with Endian::Little
\* appends (for a u16 the low byte first), encoding Be(v) those of
\* Endian::Big (the high byte first); decoding Le<T> / Be<T> is decoding T in
\* that byte order with the value wrapped, errors and the position of the
\* source included; a wrapped String is the String; and the wrapper is handed
\* NoEndian from outside.
C21_EndianWrappers ==
    /\ WrappedEncodeDone =>
          /\ last.endian = "NoEndian"
          /\ result = Ok(<<>>)
          /\ last.type = "u16" =>
                /\ writer = plain_data_encode_with(last.bytes, last.src, FixedEndian).writer
                /\ writer = last.src \o (IF last.container = "Le"
                                         THEN <<last.bytes[2], last.bytes[1]>>
                                         ELSE <<last.bytes[1], last.bytes[2]>>)
          /\ last.type = "String" => writer = String_encode_with(last.bytes, last.src).writer
    /\ WrappedDecodeDone =>
          /\ last.endian = "NoEndian"
          /\ \E lost \in Lost(last.src) :
                LET plain == IF last.type = "String"
                             THEN String_decode_with(last.src, StrArgs(last.n), lost)
                             ELSE plain_data_decode_with(last.src, last.type, FixedEndian, lost)
                IN /\ reader = plain.reader
                   /\ IF plain.res.kind = "Ok"
                      THEN result = Ok(Wrap(last.container, plain.res.value))
                      ELSE result = plain.res
          /\ (last.type = "u16" /\ Len(last.src) >= 2) =>
                result = Ok(Wrap(last.container,
                                 IF last.container = "Le"
                                 THEN <<last.src[2], last.src[1]>>
                                 ELSE <<last.src[1], last.src[2]>>))

\* Le(0x1234_u16) is written [0x34, 0x12].
C21_Witness ==
    /\ WrappedEncodeDone /\ last.container = "Le" /\ last.type = "u16"
    /\ last.bytes = U16(4660)
    /\ writer = last.src \o <<52, 18>>

-----------------------------------------------------------------------------
(* Length-prefixed projected sequences (tests/vec_slice_view.rs).          *)

\* The bytes of a sequence of (u8, u16) pairs: the element count in four
\* bytes, low byte first, then every first component, then every second
\* component, low byte first, each in element order.
CountThenColumns(values) ==
    LET n == Len(values)
    IN <<n % 256, (n \div 256) % 256, (n \div 65536) % 256, 0>>
       \o [i \in 1..n |-> values[i][1][1]]
       \o [j \in 1..(2 * n) |-> values[(j + 1) \div 2][2][IF j % 2 = 1 THEN 2 ELSE 1]]

\* The procedure of the stage returned, on the record of pairs.
ProjectedDone(f, s) == record = SliceViewTest /\ flow = f /\ stage = s /\ pc = "return"

(* C22: for the record whose only persistent field is a sequence of pairs  *)
(* rebuilt from two temporary sequences, encode succeeds and writes the    *)
(* count, then all first components, then all second components, each in   *)
(* element order; decoding these bytes yields the original record and      *)
(* consumes them all; and encoding a record decoded from bytes succeeds    *)
(* and writes exactly the bytes decode consumed.                           *)
C22_ProjectedSequences ==
    /\ ProjectedDone("ED", 1)
          => (result = Ok(<<>>) /\ writer = CountThenColumns(self["values"]))
    /\ ProjectedDone("ED", 2)
          => (result = Ok(self) /\ reader = <<>>
              /\ input = CountThenColumns(self["values"]))
    /\ ProjectedDone("DE", 2)
          => (result = Ok(<<>>)
              /\ writer = SubSeq(input, 1, Len(input) - Len(reader))
              /\ writer = CountThenColumns(self["values"]))

\* The three pairs of the test went round from the value, and their bytes
\* are the bytes of the test.
C22_Witness ==
    /\ ProjectedDone("ED", 2)
    /\ self["values"] = <<<<<<1>>, <<0, 10>>>>, <<<<2>>, <<0, 20>>>>, <<<<3>>, <<0, 30>>>>>>
    /\ input = <<3, 0, 0, 0, 1, 2, 3, 10, 0, 20, 0, 30, 0>>
    /\ result = Ok(self)
-----------------------------------------------------------------------------
(* Encode overrides.                                                       *)

\* The bindings of the encode procedure of the flow, once it has made them.
EncodeBound == IF flow = "ED" /\ stage = 2 THEN bound1 ELSE bound

\* The steps of the trace that the encode procedure of the flow made.
EncodeSteps ==
    {k \in 1..Len(trace) : trace[k].stage = (IF flow = "ED" THEN 1 ELSE 2)}

\* The bytes step k of the trace wrote.
Written(k) == SubSeq(writer, trace[k].at + 1, trace[k].at + trace[k].len)

\* The bytes the value of the encode override of an entry takes, encoded at
\* the type of the entry with the given endian.
OverrideBytes(entry, e) ==
    Type_encode_with(Seen(entry, Value(entry.encode, EncodeBound, entry.type)),
                     entry.type, <<>>, e, EncodeArgs(entry)).writer

(* C23, as stated: for every field carrying an encode override, temporary  *)
(* or persistent, the value the encode procedure hands to the encode call  *)
(* of the field is the value of the override expression: the bytes the     *)
(* call writes are the bytes of that value.                                *)
C23_EncodeOverride ==
    \A k \in EncodeSteps :
        LET entry == record.entries[trace[k].entry]
        IN (entry.e = "Field" /\ entry.encode.x # "none")
               => Written(k) = OverrideBytes(entry, trace[k].endian)
-----------------------------------------------------------------------------
(* Decode ordering and abort.                                              *)

\* The stage of the flow that decodes.
DecodeStage == IF flow = "ED" THEN 2 ELSE 1

\* The steps the decode procedure of the flow made, in the order made.
DecodeOps == SelectSeq(trace, LAMBDA o : o.stage = DecodeStage)

\* The names of the fields among the first n entries.
FieldNames(n) ==
    {record.entries[i].name : i \in {j \in 1..n : record.entries[j].e = "Field"}}

\* The position of the source.
Position == Len(input) - Len(reader)

(* C24: the decode procedure runs the operations of the entries in         *)
(* declared order, each from the position the one before left the source   *)
(* at and with the fields of all earlier entries bound; when the operation *)
(* of entry i fails, decode returns that error at once: no later entry has *)
(* run or read, the source stays where the failed operation left it, and   *)
(* no record is returned; a record is returned only after every entry ran. *)
C24_DecodeOrderAndAbort ==
    stage = DecodeStage =>
        LET n == Len(DecodeOps)
        IN /\ \A k \in 1..n : DecodeOps[k].entry = k
           /\ \A k \in 1..n :
                 DecodeOps[k].at = IF k = 1 THEN 0
                                   ELSE DecodeOps[k - 1].at + DecodeOps[k - 1].len
           /\ Position = IF n = 0 THEN 0 ELSE DecodeOps[n].at + DecodeOps[n].len
           /\ pc = "decode"
                 => (n = idx - 1 /\ result = NoOutcome
                     /\ DOMAIN bound = FieldNames(idx - 1))
           /\ (pc = "return" /\ result.kind = "Ok")
                 => (n = Len(record.entries) /\ DOMAIN bound = FieldNames(n))
           /\ (pc = "return" /\ result.kind # "Ok")
                 => (n \in 1..Len(record.entries)
                     /\ result.kind \in {"MagicMismatch", "IncompleteData", "DecodeUtf8Error"}
                     /\ DOMAIN bound = FieldNames(n - 1))

\* A wrong magic, the first of three entries: decode returned the mismatch
\* after that one operation, the two bytes of the magic read.
C24_Witness ==
    /\ record = Versioned /\ flow = "DE" /\ stage = 1 /\ pc = "return"
    /\ result.kind = "MagicMismatch"
    /\ Len(trace) = 1 /\ Position = 2
-----------------------------------------------------------------------------
(* Decode overrides and the record returned.                               *)

\* The value of a decode override under the bindings of decode: another
\* binding, or two bound sequences paired element by element.
Computed(expr) ==
    IF expr.x = "ref" THEN bound[expr.name]
    ELSE [i \in 1..Len(bound[expr.name]) |-> <<bound[expr.name][i], bound[expr.with][i]>>]

\* The entries of the given kind: "Field" for persistent, "Temp" for temporary.
OfKind(kind) == {i \in 1..Len(record.entries) : record.entries[i].kind = kind}

(* C25: in decode, the step of a field with a decode override reads no     *)
(* byte and binds the field to the value of the expression under the       *)
(* earlier bindings; the record decode returns holds the persistent fields *)
(* with the values bound to them and nothing else: no temporary and no     *)
(* directive has a field in it.                                            *)
C25_DecodeOverride ==
    stage = DecodeStage =>
        /\ \A k \in 1..Len(DecodeOps) :
              LET entry == record.entries[DecodeOps[k].entry]
              IN (entry.e = "Field" /\ entry.decode.x # "none")
                     => /\ DecodeOps[k].len = 0
                        /\ entry.decode.name \in FieldNames(DecodeOps[k].entry - 1)
                        /\ bound[entry.name] = Computed(entry.decode)
        /\ (pc = "return" /\ result.kind = "Ok")
              => /\ DOMAIN result.value = {record.entries[i].name : i \in OfKind("Field")}
                 /\ \A i \in OfKind("Field") :
                       result.value[record.entries[i].name] = bound[record.entries[i].name]
                 /\ \A i \in OfKind("Temp") :
                       record.entries[i].name \notin DOMAIN result.value

\* The test record decoded: move_data is the temporary read before it, its
\* step read nothing, and the record holds the four persistent fields.
C25_Witness ==
    /\ record = Test /\ flow = "DE" /\ stage = 1 /\ pc = "return" /\ result.kind = "Ok"
    /\ trace[6].op = "let" /\ trace[6].len = 0
    /\ bound["temporary"] = <<64, 73, 15, 219>>
    /\ result.value["move_data"] = <<64, 73, 15, 219>>
    /\ DOMAIN result.value
         = {"some_private_field", "some_pub_field", "some_fancy_visibility", "move_data"}
-----------------------------------------------------------------------------
(* The entries encode writes.                                              *)

\* The stage of the flow that encodes.
EncodeStage == IF flow = "ED" THEN 1 ELSE 2

\* The steps the encode procedure of the flow made, in the order made.
EncodeOps == SelectSeq(trace, LAMBDA o : o.stage = EncodeStage)

\* The entries without a decode override: the directives and the fields
\* that decode reads from the source.
Read == {i \in 1..Len(record.entries) : record.entries[i].decode.x = "none"}

\* The encode procedure of the flow returned Ok.
Encoded ==
    \/ flow = "ED" /\ (stage = 2 \/ (pc = "return" /\ result.kind = "Ok"))
    \/ flow = "DE" /\ stage = 2 /\ pc = "return" /\ result.kind = "Ok"

\* The entry and the operation of every step.
Operations(ops) == [k \in 1..Len(ops) |-> <<ops[k].entry, ops[k].op>>]

(* C26: encode makes no step for a field with a decode override, so such a *)
(* field writes nothing; its steps are entries without a decode override,  *)
(* in increasing entry order, each writing right after the one before, and *)
(* the sink holds their bytes only; when encode returns, every directive   *)
(* and every field without a decode override, persistent or temporary, has *)
(* made exactly one step; and when both procedures of a flow returned Ok,   *)
(* the operations of encode are those of decode with the steps of the      *)
(* decode-override fields removed.                                         *)
C26_EncodeSkipsDecodeOverrides ==
    LET n == Len(EncodeOps)
    IN /\ \A k \in 1..n : EncodeOps[k].entry \in Read
       /\ \A k \in 2..n : EncodeOps[k].entry > EncodeOps[k - 1].entry
       /\ \A k \in 1..n :
             EncodeOps[k].at = IF k = 1 THEN 0
                               ELSE EncodeOps[k - 1].at + EncodeOps[k - 1].len
       /\ (stage = EncodeStage \/ flow = "ED")
             => Len(writer) = IF n = 0 THEN 0 ELSE EncodeOps[n].at + EncodeOps[n].len
       /\ Encoded => {EncodeOps[k].entry : k \in 1..n} = Read
       /\ (stage = 2 /\ pc = "return" /\ result.kind = "Ok")
             => Operations(EncodeOps)
                  = Operations(SelectSeq(DecodeOps, LAMBDA o : o.op # "let"))

\* The test record decoded and encoded again: six of its seven entries were
\* written, the temporary among them, and move_data, the sixth, was not.
C26_Witness ==
    /\ record = Test /\ flow = "DE" /\ stage = 2 /\ pc = "return" /\ result.kind = "Ok"
    /\ [k \in 1..Len(EncodeOps) |-> EncodeOps[k].entry] = <<1, 2, 3, 4, 5, 7>>
    /\ Len(DecodeOps) = 7 /\ DecodeOps[6].op = "let"
-----------------------------------------------------------------------------
(* The temporaries of encode.                                              *)

\* The names a temporary's encode override may use: the persistent fields
\* and the temporaries declared before entry i.
Usable(i) ==
    {record.entries[j].name : j \in OfKind("Field")}
        \cup {record.entries[j].name : j \in {t \in OfKind("Temp") : t < i}}

\* The binding v is the value of the encode override of the entry over the
\* bindings of encode.
IsOverrideValue(entry, v) ==
    CASE entry.encode.x = "ref" -> v = bound[entry.encode.name]
      [] entry.encode.x = "len" ->
           /\ Len(v) = size_of(entry.type.name)
           /\ AsUsize(v) = Len(bound[entry.encode.name])
      [] entry.encode.x = "lit" -> v = entry.encode.val
      [] entry.encode.x \in {"SliceView", "SliceViewRef"} ->
           /\ v.base_slice = bound[entry.encode.name]
           /\ v.projector = entry.encode.val[1]
      [] OTHER -> FALSE

(* C27: in encode nothing is written and no entry has run before the       *)
(* temporaries are bound; from then on the persistent fields are bound to  *)
(* the values of the record encoded and every temporary is bound to the    *)
(* value of its encode override, an expression over persistent fields and  *)
(* temporaries declared before it.                                         *)
C27_TemporariesFirst ==
    (stage = EncodeStage /\ pc \in {"encode", "return"}) =>
        /\ idx = 0 => (writer = <<>> /\ EncodeOps = <<>> /\ bound = Empty)
        /\ (idx >= 1 \/ writer # <<>> \/ EncodeOps # <<>>) =>
              /\ \A i \in OfKind("Field") :
                    /\ record.entries[i].name \in DOMAIN bound
                    /\ bound[record.entries[i].name] = self[record.entries[i].name]
              /\ \A i \in OfKind("Temp") :
                    /\ record.entries[i].name \in DOMAIN bound
                    /\ record.entries[i].encode.x \in {"lit", "none"}
                          \/ record.entries[i].encode.name \in Usable(i)
                    /\ IsOverrideValue(record.entries[i], bound[record.entries[i].name])

\* The three pairs of the test about to be written: the length and both
\* views are bound and the sink is still empty.
C27_Witness ==
    /\ record = SliceViewTest /\ flow = "ED" /\ stage = 1 /\ pc = "encode" /\ idx = 1
    /\ writer = <<>>
    /\ Len(self["values"]) = 3
    /\ bound["length"] = <<0, 0, 0, 3>>
    /\ bound["xs"] = [base_slice |-> self["values"], projector |-> 1]
    /\ bound["ys"] = [base_slice |-> self["values"], projector |-> 2]
-----------------------------------------------------------------------------
(* The source after a failed read.                                         *)

\* s is what is left of t after some bytes of t were read.
IsRest(s, t) == Len(s) <= Len(t) /\ Drop(t, Len(t) - Len(s)) = s

(* C28: a read operation that fails does not restore the source: after     *)
(* magic(expected) fails with MagicMismatch the source is len(expected)    *)
(* bytes further, after a String decode fails the UTF-8 validation it is   *)
(* count bytes further, and after any failed read operation the source is  *)
(* some rest of what it was, never put back before a byte it had passed.   *)
C28_NoRewindOnError ==
    (dir = "Read" /\ last.op # "" /\ result.kind \notin {"Ok", "None"}) =>
        /\ IsRest(reader, last.src)
        /\ (last.op = "magic" /\ result.kind = "MagicMismatch")
              => (Len(last.src) >= Len(last.bytes)
                  /\ reader = Drop(last.src, Len(last.bytes)))
        /\ (last.op \in {"decode", "decode_wrapped"} /\ last.type = "String"
               /\ last.container \in {"", "Le", "Be"} /\ result.kind = "DecodeUtf8Error")
              => (Len(last.src) >= last.n /\ reader = Drop(last.src, last.n))

\* Two bytes that are no text were asked for as a String: the decode failed
\* and the source stands after them.
C28_Witness ==
    /\ dir = "Read" /\ last.op = "decode" /\ last.type = "String" /\ last.container = ""
    /\ last.n = 2 /\ last.src = <<195, 195, 97>>
    /\ result.kind = "DecodeUtf8Error"
    /\ reader = <<97>>
-----------------------------------------------------------------------------
(* Surplus parameters on encode.                                           *)

\* A sequence or a view was encoded with at least as many parameters as it
\* has elements, or with the endless parameters of the write-side builder.
EnoughParameters ==
    /\ dir = "Write" /\ last.op \in {"encode", "encode_view"} /\ last.container # ""
    /\ last.args.inf \/ Len(last.args.items) >= Len(last.elems)

\* The elements encoded: those of the sequence, or those the view projects.
ElementsOf(op) ==
    IF op.op = "encode_view" THEN [i \in 1..Len(op.elems) |-> op.elems[i][op.n]]
    ELSE op.elems

(* C29: encoding a sequence of n elements with k >= n parameters, or with  *)
(* the endless parameters of the default write-side builder, succeeds and  *)
(* writes the n elements in order and nothing else, whatever k is; with    *)
(* the default write-side builder encode never fails with InvalidArgument. *)
C29_SurplusParameters ==
    /\ EnoughParameters =>
          /\ result.kind = "Ok"
          /\ writer = last.src
                 \o Flatten([i \in 1..Len(last.elems) |->
                                ElemBytes(ElementsOf(last)[i], last.endian)])
    /\ (dir = "Write" /\ last.container # "" /\ last.args.inf)
          => result.kind # "InvalidArgument"

\* One u16 element and three parameters: the element is written, the two
\* parameters left over make no difference.
C29_Witness ==
    /\ dir = "Write" /\ last.op = "encode" /\ last.container = "Vec" /\ last.type = "u16"
    /\ last.elems = <<<<18, 52>>>> /\ last.endian = "Little"
    /\ ~last.args.inf /\ Len(last.args.items) = 3
    /\ result.kind = "Ok" /\ writer = last.src \o <<52, 18>>
-----------------------------------------------------------------------------
(* The assertions of the code generator.                                   *)

\* The macro parsed the declaration and ran.
Expanded == expansion # NoExpansion /\ expansion.compile_errors = <<>>

(* C30: for every declaration that parses, the macro does not panic: the   *)
(* list of per-entry options is as long as the list of entries, holds      *)
(* options for exactly the Field entries and none for the directives, and  *)
(* the options of every field have no argument declaration in either       *)
(* direction, an args attribute at a field being an assignment.            *)
C30_AssertionsHold ==
    Expanded =>
        /\ expansion.panic = ""
        /\ Len(expansion.field_args) = Len(decl.entries)
        /\ \A i \in 1..Len(decl.entries) :
              /\ expansion.field_args[i].some <=> decl.entries[i].e = "Field"
              /\ decl.entries[i].e = "Field" =>
                    /\ expansion.field_args[i].val.decode.args_decl = <<>>
                    /\ expansion.field_args[i].val.encode.args_decl = <<>>
                    /\ HasAttr(decl.entries[i], "args") =>
                          (expansion.field_args[i].val.decode.args_assign # <<>>
                           \/ expansion.field_args[i].val.encode.args_assign # <<>>)

\* A record that declares an argument, with a field that assigns one between
\* two directives: expanded without a panic, the field's options extracted.
C30_Witness ==
    /\ Expanded /\ decl.name = "WithArgs"
    /\ \E k \in 1..Len(decl.attrs) : decl.attrs[k].attr = "args"
    /\ expansion.panic = ""
    /\ ~expansion.field_args[1].some /\ ~expansion.field_args[3].some
    /\ expansion.field_args[2].some
    /\ Len(expansion.field_args[2].val.decode.args_assign) = 1
    /\ Len(expansion.decode_with) = 3
====
